---- MODULE Spec2Model ----
(***************************************************************************)
(* Merge orchestration of git-workflow-helper.                             *)
(*                                                                         *)
(* GitMergeService.mergeFeatureBranch (gitMergeService.ts) guards the      *)
(* workflow with the static flag isOperationInProgress and drives          *)
(* MergeWorkflow (mergeWorkflow.ts), which sequences BranchManager         *)
(* (branchManager.ts) and GitOperations (gitOperations.ts) calls.          *)
(*                                                                         *)
(* Every `await` of the code is one step of an invocation: a VCS command   *)
(* (which may succeed or fail), or a prompt (whose answer the user picks). *)
(* Invocations interleave only at these suspension points.                 *)
(***************************************************************************)
EXTENDS Integers, Sequences, FiniteSets, TLC

\* ------------------------------------------------------------------------
\* Bounds and inputs
\* ------------------------------------------------------------------------

\* number of command invocations that may be pending at the same time
MaxInvocations == 2

\* the pending invocations, numbered in their order of arrival
Procs == 1..MaxInvocations

\* Branch names are sequences of their '/'-separated segments.
FeatureBranch == <<"Feature", "login">>
OtherBranch == <<"develop">>
TargetUat == <<"uat">>
\* `git branch --show-current` prints nothing on a detached HEAD
NoBranch == <<>>

Branches == {FeatureBranch, OtherBranch, TargetUat}

\* configuration read by getBranchPrefixes / getTargetBranches
BranchPrefixes == {"feature", "hotfix"}
TargetBranches == <<TargetUat>>

\* the elements of a list
Range(s) == {s[i] : i \in DOMAIN s}

\* conflicted paths listed by `git diff --name-only --diff-filter=U`
ConflictList == <<"a.ts", "b.ts">>

\* const maxAttempts = 10 in waitForConflictResolution
maxAttempts == 10

\* String.prototype.toLowerCase on the segments used here
ToLower(s) ==
  CASE s = "Feature" -> "feature"
    [] s = "Hotfix" -> "hotfix"
    [] OTHER -> s

VARIABLES
  isOperationInProgress, \* GitMergeService.isOperationInProgress (static)
  head,                  \* checked-out branch of the working directory
  localBranches,         \* local branches of the repository
  remoteBranches,        \* branches of origin
  tracked,               \* local branches whose upstream is origin/<same name>
  status,                \* `git status --porcelain`: "clean", "dirty" or "conflict"
  pc,                    \* suspension point of each invocation
  phase,                 \* which caller checkoutBranch / ensureBranchUpstream serve
  currentBranch,         \* mergeFeatureBranch: let currentBranch = ""
  cb,                    \* prepareMergeEnvironment: const currentBranch
  targetBranch,          \* the target selected in gatherMergeParameters
  remoteExists,          \* safeMergeBranch: const remoteExists
  attempts,              \* waitForConflictResolution: let attempts
  conflictFiles,         \* safeMergeBranch: const conflictFiles
  log,                   \* mutating VCS commands issued, with their outcome
  touched,               \* the invocation has issued a VCS command or shown a prompt
  checks,                \* conflict-state checks of the current poll loop
  msgs,                  \* user-visible messages shown by the invocation
  outcome,               \* "none", "rejected", "completed" or "failed"
  origHead,              \* branch checked out when the workflow started
  error,                 \* the exception propagating to the caller, if any
  ensured,               \* phases in which ensureBranchUpstream was invoked
  restoreProbe,          \* outcome of executeMainMergeFlow's ls-remote command
  configuredTargets,     \* configuration value targetBranches, as getTargetBranches reads it
  fn,                    \* the function of the naming engine applied last, or "none"
  args,                  \* the arguments of the call
  ret,                   \* what the calls made so far returned
  cpc,                   \* suspension point of BranchCreator.createBranch
  creation,              \* createBranch: its locals
  creationConfig,        \* configuration read by BranchCreator
  cresult,               \* the BranchCreationResult returned, if any
  clog,                  \* VCS commands issued by createBranch, with their outcome
  cmsgs,                 \* messages shown by createBranch
  mpc,                   \* suspension point of the target-branch management dialog
  mlocals,               \* the locals of the dialog
  mmsgs,                 \* messages shown, and errors thrown, by target management
  qpc,                   \* suspension point of GitMergeService.quickCommitAndMerge
  qcallee,               \* the invocation of mergeFeatureBranch it made, or 0
  qmsgs,                 \* messages shown by the quick commit and its command handler
  storedPrefixes,        \* configuration value branchPrefixes, as getBranchPrefixes reads it
  prefixResult           \* how the last call of the prefix configuration ended

repoVars == <<head, localBranches, remoteBranches, tracked, status>>
localVars == <<phase, currentBranch, cb, targetBranch, remoteExists, attempts,
               conflictFiles>>
ghostVars == <<ensured, restoreProbe>>
obsVars == <<log, touched, checks, msgs, outcome, origHead, ghostVars>>
\* the configuration the merge workflow reads
configVars == <<configuredTargets>>
mergeVars == <<isOperationInProgress, pc, error, localVars, obsVars, configVars>>
\* calls of the pure functions (branchUtils.ts, the comparator, the classifier)
callVars == <<fn, args, ret>>
\* BranchCreator.createBranch
creationVars == <<cpc, creation, creationConfig, cresult, clog, cmsgs>>
\* management of the target branches (gitMergeService.ts)
manageVars == <<mpc, mlocals, mmsgs>>
quickVars == <<qpc, qcallee, qmsgs>>
\* the dialogs and commands beside the merge and the creation of a branch
prefixVars == <<storedPrefixes, prefixResult>>
auxVars == <<manageVars, quickVars, prefixVars>>
\* what no step of the merge workflow writes
frameVars == <<configVars, callVars, creationVars, auxVars>>
vars == <<repoVars, mergeVars, callVars, creationVars, auxVars>>

\* ------------------------------------------------------------------------
\* Bookkeeping helpers
\* ------------------------------------------------------------------------

Goto(p, l) == pc' = [pc EXCEPT ![p] = l] /\ UNCHANGED <<error, frameVars>>
Touch(p) == touched' = [touched EXCEPT ![p] = TRUE]
Record(p, cmd, b, ok) == log' = [log EXCEPT ![p] = Append(@, <<cmd, b, ok>>)]
Show(p, m) == msgs' = [msgs EXCEPT ![p] = @ \cup {m}]

\* a probe issues one command and records nothing else
Probe(p) == Touch(p) /\ UNCHANGED <<log, checks, msgs, outcome, origHead, ghostVars>>
\* a mutating command is counted and logged
Mutate(p, cmd, b, ok) ==
  Touch(p) /\ Record(p, cmd, b, ok)
  /\ UNCHANGED <<checks, msgs, outcome, origHead, ghostVars>>
\* a prompt dismissed without a choice resolves to undefined; the first dismissal
\* of an invocation is kept in its history
Dismissed == <<"dismissed", NoBranch, TRUE>>
Answered(p, answer) ==
  log' = [log EXCEPT ![p] =
            IF answer = "none" /\ \A i \in DOMAIN @ : @[i] # Dismissed
              THEN Append(@, Dismissed) ELSE @]
\* a prompt suspends the invocation until the user answers
Ask(p, answer) ==
  Touch(p) /\ Answered(p, answer)
  /\ UNCHANGED <<checks, msgs, outcome, origHead, ghostVars>>

\* an exception leaving the try block of mergeFeatureBranch reaches its catch
Throw(p, e) ==
  /\ pc' = [pc EXCEPT ![p] = "catch"]
  /\ error' = [error EXCEPT ![p] = e]
  /\ UNCHANGED frameVars

\* ------------------------------------------------------------------------
\* GitOperations
\* ------------------------------------------------------------------------

\* checkRemoteBranchExists: non-empty `ls-remote --heads` output; false on failure
checkRemoteBranchExists(b, ok) == ok /\ b \in remoteBranches

\* variant: a failing `rev-parse --verify` counts as "the branch exists"
checkLocalBranchExists_failTrue(b, ok) == ~ok \/ b \in localBranches

\* checkLocalBranchExists: `rev-parse --verify` succeeded; false on failure
checkLocalBranchExists(b, ok) == ok /\ b \in localBranches

\* checkMergeConflicts: some status line has a conflict code; false on failure
checkMergeConflicts(ok) == ok /\ status = "conflict"

\* getConflictFiles: the unmerged paths; [] on failure
getConflictFiles(ok) == IF ok /\ status = "conflict" THEN ConflictList ELSE <<>>

\* checkFeatureBranch: some prefix p with name.toLowerCase().startsWith(p + '/')
checkFeatureBranch(name) ==
  \E pre \in BranchPrefixes :
     /\ Len(name) >= 2
     /\ ToLower(name[1]) = ToLower(pre)


\* ------------------------------------------------------------------------
\* Initial state
\* ------------------------------------------------------------------------

\* no call of a pure function is being examined
NoCall == fn = "none" /\ args = <<>> /\ ret = <<>>

\* createBranch is not running
NoCreation ==
  /\ cpc = "idle"
  /\ creation = <<>>
  /\ creationConfig = <<>>
  /\ cresult = <<>>
  /\ clog = <<>>
  /\ cmsgs = {}

\* no target-branch management is going on
NoManage == mpc = "idle" /\ mlocals = <<>> /\ mmsgs = {}

\* no quick commit has been started
NoQuick == qpc = "idle" /\ qcallee = 0 /\ qmsgs = {}

\* the prefix names "feature", "feat", "bugfix", "hotfix" and "fix" as code units
PrefixFeature == <<102, 101, 97, 116, 117, 114, 101>>
PrefixFeat == <<102, 101, 97, 116>>
PrefixBugfix == <<98, 117, 103, 102, 105, 120>>
PrefixHotfix == <<104, 111, 116, 102, 105, 120>>
PrefixFix == <<102, 105, 120>>

\* BranchConfigManager.getDefaultPrefixes; the description of a prefix, which no
\* function of the manager reads, is left out of the records
getDefaultPrefixes ==
  << [prefix |-> PrefixFeature, isDefault |-> TRUE],
     [prefix |-> PrefixFeat, isDefault |-> FALSE],
     [prefix |-> PrefixBugfix, isDefault |-> FALSE],
     [prefix |-> PrefixHotfix, isDefault |-> FALSE],
     [prefix |-> PrefixFix, isDefault |-> FALSE] >>

NoPrefixes == storedPrefixes = getDefaultPrefixes /\ prefixResult = "none"

\* no invocation of the merge command has arrived
NoMerge ==
  /\ isOperationInProgress = FALSE
  /\ pc = [p \in Procs |-> "idle"]
  /\ phase = [p \in Procs |-> "prepare"]
  /\ currentBranch = [p \in Procs |-> NoBranch]
  /\ cb = [p \in Procs |-> NoBranch]
  /\ targetBranch = [p \in Procs |-> NoBranch]
  /\ remoteExists = [p \in Procs |-> FALSE]
  /\ attempts = [p \in Procs |-> 0]
  /\ conflictFiles = [p \in Procs |-> <<>>]
  /\ log = [p \in Procs |-> <<>>]
  /\ touched = [p \in Procs |-> FALSE]
  /\ checks = [p \in Procs |-> 0]
  /\ msgs = [p \in Procs |-> {}]
  /\ outcome = [p \in Procs |-> "none"]
  /\ origHead = [p \in Procs |-> NoBranch]
  /\ error = [p \in Procs |-> "none"]
  /\ ensured = [p \in Procs |-> {}]
  /\ restoreProbe = [p \in Procs |-> "none"]

Init ==
  /\ NoCall
  /\ NoCreation
  /\ NoManage
  /\ NoQuick
  /\ NoPrefixes
  /\ NoMerge
  /\ head \in {FeatureBranch, OtherBranch, NoBranch}
  /\ \E l \in SUBSET {TargetUat} : localBranches = l \cup ({head} \ {NoBranch})
  /\ remoteBranches \in SUBSET {FeatureBranch, TargetUat}
  /\ tracked \in SUBSET (localBranches \cap remoteBranches)
  /\ status \in {"clean", "dirty"}
  /\ configuredTargets \in {<<>>, TargetBranches}

\* ------------------------------------------------------------------------
\* GitMergeService.mergeFeatureBranch: guard, catch, finally
\* ------------------------------------------------------------------------

\* variant: the guard never rejects
checkOperationInProgress_never == FALSE

\* checkOperationInProgress
checkOperationInProgress == isOperationInProgress

\* setOperationStatus(inProgress)
setOperationStatus(inProgress) == isOperationInProgress' = inProgress

\* mergeFeatureBranch up to its first await: the guard, then the flag is set
InvokeBody(p) ==
  /\ pc[p] = "idle"
  /\ \A q \in Procs : q < p => pc[q] # "idle"
  /\ \A q \in Procs : outcome[q] \notin {"completed", "failed"}
  /\ IF checkOperationInProgress
       THEN /\ Show(p, "operationInProgress")
            /\ outcome' = [outcome EXCEPT ![p] = "rejected"]
            /\ pc' = [pc EXCEPT ![p] = "done"]
            /\ UNCHANGED <<isOperationInProgress, currentBranch, origHead>>
       ELSE /\ setOperationStatus(TRUE)
            /\ currentBranch' = [currentBranch EXCEPT ![p] = NoBranch]
            /\ origHead' = [origHead EXCEPT ![p] = head]
            /\ pc' = [pc EXCEPT ![p] = "prep_repo"]
            /\ UNCHANGED <<msgs, outcome>>
  /\ UNCHANGED <<repoVars, error, phase, cb, targetBranch, remoteExists, attempts,
                 conflictFiles, log, touched, checks, ghostVars>>

\* the command gitWorkflowHelper.mergeFeatureBranch is run; the record of a
\* finished quick commit is dropped before it arrives
Invoke(p) ==
  /\ qpc # "done"
  /\ InvokeBody(p)
  /\ UNCHANGED frameVars

\* The record of a returned invocation is dropped. Invocations are numbered in
\* their order of arrival and the record of a finished workflow is dropped before
\* the next invocation arrives: both restrict the observations only.
Forget(p) ==
  /\ pc[p] = "done"
  /\ qcallee # p
  /\ pc' = [pc EXCEPT ![p] = "idle"]
  /\ error' = [error EXCEPT ![p] = "none"]
  /\ ensured' = [ensured EXCEPT ![p] = {}]
  /\ restoreProbe' = [restoreProbe EXCEPT ![p] = "none"]
  /\ phase' = [phase EXCEPT ![p] = "prepare"]
  /\ currentBranch' = [currentBranch EXCEPT ![p] = NoBranch]
  /\ cb' = [cb EXCEPT ![p] = NoBranch]
  /\ targetBranch' = [targetBranch EXCEPT ![p] = NoBranch]
  /\ remoteExists' = [remoteExists EXCEPT ![p] = FALSE]
  /\ conflictFiles' = [conflictFiles EXCEPT ![p] = <<>>]
  /\ log' = [log EXCEPT ![p] = <<>>]
  /\ touched' = [touched EXCEPT ![p] = FALSE]
  /\ msgs' = [msgs EXCEPT ![p] = {}]
  /\ outcome' = [outcome EXCEPT ![p] = "none"]
  /\ origHead' = [origHead EXCEPT ![p] = NoBranch]
  /\ UNCHANGED <<isOperationInProgress, repoVars, attempts, checks, frameVars>>

\* variant: the flag is not cleared when the invocation returns
Finally_missing == UNCHANGED isOperationInProgress

\* the finally block of mergeFeatureBranch
Finally == setOperationStatus(FALSE)

\* executeMainMergeFlow returned: the completion message, then finally
ReturnOk(p) ==
  /\ pc[p] = "ret_ok"
  /\ Show(p, "completed")
  /\ outcome' = [outcome EXCEPT ![p] = "completed"]
  /\ Finally
  /\ Goto(p, "done")
  /\ UNCHANGED <<repoVars, localVars, log, touched, checks, origHead, ghostVars>>

\* handleMergeError returned: `throw error`, then finally; the command handler
\* catches the error and shows it in an error dialog
Rethrow(p) ==
  /\ pc[p] = "rethrow"
  /\ outcome' = [outcome EXCEPT ![p] = "failed"]
  /\ Finally
  /\ Show(p, "mergeFailed")
  /\ Goto(p, "done")
  /\ UNCHANGED <<repoVars, localVars, log, touched, checks, origHead,
                 ghostVars>>

\* variant: the catch block does not restore the original branch
HandleMergeError_noRestore(p) ==
  /\ pc[p] = "catch"
  /\ Goto(p, "rethrow")
  /\ UNCHANGED <<isOperationInProgress, repoVars, localVars, obsVars>>

\* variant: the catch block restores whenever prepareMergeEnvironment read a branch
HandleMergeError_usesCb(p) ==
  /\ pc[p] = "catch"
  /\ IF cb[p] # NoBranch
       THEN /\ phase' = [phase EXCEPT ![p] = "error"]
            /\ Goto(p, "co_local")
       ELSE /\ Goto(p, "rethrow")
            /\ UNCHANGED phase
  /\ UNCHANGED <<isOperationInProgress, repoVars, currentBranch, cb, targetBranch,
                 remoteExists, attempts, conflictFiles, obsVars>>

\* handleMergeError: restore the original branch if it is known
HandleMergeError(p) ==
  /\ pc[p] = "catch"
  /\ IF currentBranch[p] # NoBranch
       THEN /\ phase' = [phase EXCEPT ![p] = "error"]
            /\ Goto(p, "co_local")
       ELSE /\ Goto(p, "rethrow")
            /\ UNCHANGED phase
  /\ UNCHANGED <<isOperationInProgress, repoVars, currentBranch, cb, targetBranch,
                 remoteExists, attempts, conflictFiles, obsVars>>

\* ------------------------------------------------------------------------
\* GitOperations.checkoutBranch(b): probes, then exactly one checkout command
\* ------------------------------------------------------------------------

\* the branch a checkoutBranch / ensureBranchUpstream call is about
ArgBranch(p) ==
  CASE phase[p] = "prepare" -> cb[p]
    [] phase[p] = "target" -> targetBranch[p]
    [] OTHER -> currentBranch[p]

\* variant: handleMergeError also reconciles the upstream after its checkout
AfterCheckout_reconcileOnError(p) ==
  CASE phase[p] = "target" -> IF remoteExists[p] THEN "eu_probe" ELSE "smb_merge"
    [] OTHER -> "emf_probe"

\* where control continues when checkoutBranch returns
AfterCheckout(p) ==
  CASE phase[p] = "target" -> IF remoteExists[p] THEN "eu_probe" ELSE "smb_merge"
    [] phase[p] = "restore" -> "emf_probe"
    [] OTHER -> "rethrow"

\* const localExists = await this.checkLocalBranchExists(branchName)
CheckoutLocalProbe(p) ==
  /\ pc[p] = "co_local"
  /\ \E ok \in BOOLEAN :
       Goto(p, IF checkLocalBranchExists(ArgBranch(p), ok) THEN "co_plain" ELSE "co_remote")
  /\ Probe(p)
  /\ UNCHANGED <<isOperationInProgress, repoVars, localVars>>

\* const remoteExists = await this.checkRemoteBranchExists(branchName)
CheckoutRemoteProbe(p) ==
  /\ pc[p] = "co_remote"
  /\ \E ok \in BOOLEAN :
       Goto(p, IF checkRemoteBranchExists(ArgBranch(p), ok) THEN "co_track" ELSE "co_new")
  /\ Probe(p)
  /\ UNCHANGED <<isOperationInProgress, repoVars, localVars>>

\* variant: handleMergeError swallows the failed checkout without a report
CheckoutFailed_silent(p) ==
  IF phase[p] = "error"
    THEN /\ Goto(p, "rethrow")
         /\ UNCHANGED msgs
    ELSE /\ Throw(p, "gitCommandFailed")
         /\ UNCHANGED msgs

\* a checkout command failed: handleMergeError reports it, any other caller throws
CheckoutFailed(p) ==
  IF phase[p] = "error"
    THEN /\ Show(p, "restoreFailed")
         /\ Goto(p, "rethrow")
    ELSE /\ Throw(p, "gitCommandFailed")
         /\ UNCHANGED msgs

\* one of `git checkout b`, `git checkout -b b origin/b`, `git checkout -b b`
CheckoutCommand(p) ==
  /\ pc[p] \in {"co_plain", "co_track", "co_new"}
  /\ LET b == ArgBranch(p)
         cmd == CASE pc[p] = "co_plain" -> "checkout"
                  [] pc[p] = "co_track" -> "checkout -b origin"
                  [] OTHER -> "checkout -b"
         \* git refuses to check out a missing branch or to create an existing one
         possible == CASE pc[p] = "co_plain" -> b \in localBranches
                       [] pc[p] = "co_track" -> b \notin localBranches /\ b \in remoteBranches
                       [] OTHER -> b \notin localBranches
     IN \E ok \in BOOLEAN :
          /\ ok => possible
          /\ Touch(p) /\ Record(p, cmd, b, ok)
          /\ IF ok
               THEN /\ head' = b
                    /\ localBranches' = localBranches \cup {b}
                    /\ tracked' = IF pc[p] = "co_track" THEN tracked \cup {b} ELSE tracked
                    /\ Goto(p, AfterCheckout(p))
                    /\ UNCHANGED msgs
               ELSE /\ CheckoutFailed(p)
                    /\ UNCHANGED <<head, localBranches, tracked>>
  /\ UNCHANGED <<isOperationInProgress, remoteBranches, status, localVars,
                 checks, outcome, origHead, ghostVars>>

\* ------------------------------------------------------------------------
\* GitOperations.ensureBranchUpstream(b)
\* ------------------------------------------------------------------------

\* variant: safeMergeBranch merges without pulling the target
AfterUpstream_noPull(p) ==
  CASE phase[p] = "prepare" -> "huc_status"
    [] phase[p] = "target" -> "smb_merge"
    [] OTHER -> "ret_ok"

\* where control continues when ensureBranchUpstream returns
AfterUpstream(p) ==
  CASE phase[p] = "prepare" -> "huc_status"
    [] phase[p] = "target" -> "smb_pull"
    [] OTHER -> "ret_ok"

\* const remoteExists = await this.checkRemoteBranchExists(branchName)
UpstreamRemoteProbe(p) ==
  /\ pc[p] = "eu_probe"
  /\ \E ok \in BOOLEAN :
       Goto(p, IF checkRemoteBranchExists(ArgBranch(p), ok) THEN "eu_upstream"
               ELSE AfterUpstream(p))
  /\ Touch(p)
  /\ ensured' = [ensured EXCEPT ![p] = @ \cup {phase[p]}]
  /\ UNCHANGED <<isOperationInProgress, repoVars, localVars, log, checks, msgs,
                 outcome, origHead, restoreProbe>>

\* `git rev-parse --abbrev-ref b@{upstream}`, null when the command fails
UpstreamProbe(p) ==
  /\ pc[p] = "eu_upstream"
  /\ \E ok \in BOOLEAN :
       Goto(p, IF ok /\ ArgBranch(p) \in tracked THEN AfterUpstream(p) ELSE "eu_set")
  /\ Probe(p)
  /\ UNCHANGED <<isOperationInProgress, repoVars, localVars>>

\* `git branch --set-upstream-to=origin/b b`; its failure is caught, and only an
\* error text containing "no upstream" leads to the second attempt
SetUpstream(p) ==
  /\ pc[p] = "eu_set"
  /\ \E ok \in BOOLEAN :
       /\ Mutate(p, "set-upstream", ArgBranch(p), ok)
       /\ IF ok
            THEN /\ tracked' = tracked \cup {ArgBranch(p)}
                 /\ Goto(p, AfterUpstream(p))
            ELSE /\ UNCHANGED tracked
                 /\ \E noUpstreamText \in BOOLEAN :
                      Goto(p, IF noUpstreamText THEN "eu_retryProbe" ELSE AfterUpstream(p))
  /\ UNCHANGED <<isOperationInProgress, head, localBranches, remoteBranches, status,
                 localVars>>

\* catch block: const remoteExists = await this.checkRemoteBranchExists(branchName)
UpstreamRetryProbe(p) ==
  /\ pc[p] = "eu_retryProbe"
  /\ \E ok \in BOOLEAN :
       Goto(p, IF checkRemoteBranchExists(ArgBranch(p), ok) THEN "eu_retrySet"
               ELSE AfterUpstream(p))
  /\ Probe(p)
  /\ UNCHANGED <<isOperationInProgress, repoVars, localVars>>

\* catch block: the set-upstream command again; this failure propagates
UpstreamRetrySet(p) ==
  /\ pc[p] = "eu_retrySet"
  /\ \E ok \in BOOLEAN :
       /\ Mutate(p, "set-upstream", ArgBranch(p), ok)
       /\ IF ok
            THEN /\ tracked' = tracked \cup {ArgBranch(p)}
                 /\ Goto(p, AfterUpstream(p))
            ELSE /\ UNCHANGED tracked
                 /\ Throw(p, "gitCommandFailed")
  /\ UNCHANGED <<isOperationInProgress, head, localBranches, remoteBranches, status,
                 localVars>>

\* ------------------------------------------------------------------------
\* MergeWorkflow.prepareMergeEnvironment
\* ------------------------------------------------------------------------

\* if (!(await this.gitOps.checkGitRepository())) throw
CheckGitRepository(p) ==
  /\ pc[p] = "prep_repo"
  /\ \E ok \in BOOLEAN :
       IF ok THEN Goto(p, "prep_branch") ELSE Throw(p, "notGitRepository")
  /\ Probe(p)
  /\ UNCHANGED <<isOperationInProgress, repoVars, localVars>>

\* const currentBranch = await this.gitOps.getCurrentBranch()
GetCurrentBranch(p) ==
  /\ pc[p] = "prep_branch"
  /\ \E ok \in BOOLEAN :
       IF ok
         THEN /\ cb' = [cb EXCEPT ![p] = head]
              /\ Goto(p, "prep_feature")
         ELSE /\ Throw(p, "gitCommandFailed")
              /\ UNCHANGED cb
  /\ Probe(p)
  /\ UNCHANGED <<isOperationInProgress, repoVars, phase, currentBranch, targetBranch,
                 remoteExists, attempts, conflictFiles>>

\* const isFeatureBranch = await this.branchManager.checkFeatureBranch(prefixes)
CheckFeatureBranch(p) ==
  /\ pc[p] = "prep_feature"
  /\ \E ok \in BOOLEAN :
       CASE ~ok -> Throw(p, "cannotGetBranch")
         [] ok /\ ~checkFeatureBranch(head) -> Throw(p, "notFeatureBranch")
         [] OTHER -> Goto(p, "ere_probe")
  /\ Probe(p)
  /\ UNCHANGED <<isOperationInProgress, repoVars, localVars>>

\* ensureRemoteBranchExists: const exists = await checkRemoteBranchExists(branchName)
EnsureRemoteProbe(p) ==
  /\ pc[p] = "ere_probe"
  /\ \E ok \in BOOLEAN :
       Goto(p, IF checkRemoteBranchExists(cb[p], ok) THEN "eu_probe" ELSE "ere_push")
  /\ Probe(p)
  /\ UNCHANGED <<isOperationInProgress, repoVars, localVars>>

\* ensureRemoteBranchExists: await this.gitOps.pushBranch(branchName, true)
EnsureRemotePush(p) ==
  /\ pc[p] = "ere_push"
  /\ \E ok \in BOOLEAN :
       /\ Mutate(p, "push -u", cb[p], ok)
       /\ IF ok
            THEN /\ remoteBranches' = remoteBranches \cup {cb[p]}
                 /\ tracked' = tracked \cup {cb[p]}
                 /\ Goto(p, "huc_status")
            ELSE /\ UNCHANGED <<remoteBranches, tracked>>
                 /\ Throw(p, "gitCommandFailed")
  /\ UNCHANGED <<isOperationInProgress, head, localBranches, status, localVars>>

\* prepareMergeEnvironment returns: currentBranch = await prepareMergeEnvironment()
PrepareReturns(p) == currentBranch' = [currentBranch EXCEPT ![p] = cb[p]]

\* handleUncommittedChanges: if (!(await checkUncommittedChanges())) return
UncommittedCheck(p) ==
  /\ pc[p] = "huc_status"
  /\ \E ok \in BOOLEAN :
       CASE ~ok -> Throw(p, "gitCommandFailed") /\ UNCHANGED currentBranch
         [] ok /\ status # "clean" -> Goto(p, "huc_prompt") /\ UNCHANGED currentBranch
         [] OTHER -> PrepareReturns(p) /\ Goto(p, "gmp_pick")
  /\ Probe(p)
  /\ UNCHANGED <<isOperationInProgress, repoVars, phase, cb, targetBranch,
                 remoteExists, attempts, conflictFiles>>

\* handleUncommittedChanges: "commit now?" answered yes, no, or dismissed
UncommittedPrompt(p) ==
  /\ pc[p] = "huc_prompt"
  /\ \E answer \in {"yes", "no", "none"} :
       /\ IF answer = "yes" THEN Goto(p, "huc_input") ELSE Throw(p, "commitDeclined")
       /\ Ask(p, answer)
  /\ UNCHANGED <<isOperationInProgress, repoVars, localVars>>

\* variant: a missing commit message does not stop the commit
UncommittedInput_optional(p) ==
  /\ pc[p] = "huc_input"
  /\ \E answer \in {"message", "none"} :
       /\ Goto(p, "huc_add")
       /\ Ask(p, answer)
  /\ UNCHANGED <<isOperationInProgress, repoVars, localVars>>

\* handleUncommittedChanges: the commit message input box
UncommittedInput(p) ==
  /\ pc[p] = "huc_input"
  /\ \E answer \in {"message", "none"} :
       /\ IF answer = "message" THEN Goto(p, "huc_add") ELSE Throw(p, "noCommitMessage")
       /\ Ask(p, answer)
  /\ UNCHANGED <<isOperationInProgress, repoVars, localVars>>

\* commitChanges: `git add .`
UncommittedAdd(p) ==
  /\ pc[p] = "huc_add"
  /\ \E ok \in BOOLEAN :
       /\ Mutate(p, "add", cb[p], ok)
       /\ IF ok THEN Goto(p, "huc_commit") ELSE Throw(p, "gitCommandFailed")
  /\ UNCHANGED <<isOperationInProgress, repoVars, localVars>>

\* commitChanges: `git commit -m`
UncommittedCommit(p) ==
  /\ pc[p] = "huc_commit"
  /\ \E ok \in BOOLEAN :
       /\ Mutate(p, "commit", cb[p], ok)
       /\ IF ok
            THEN status' = "clean" /\ Goto(p, "huc_push")
            ELSE UNCHANGED status /\ Throw(p, "gitCommandFailed")
  /\ UNCHANGED <<isOperationInProgress, head, localBranches, remoteBranches, tracked,
                 localVars>>

\* handleUncommittedChanges: await this.gitOps.pushBranch(currentBranch)
UncommittedPush(p) ==
  /\ pc[p] = "huc_push"
  /\ \E ok \in BOOLEAN :
       /\ Mutate(p, "push", cb[p], ok)
       /\ IF ok
            THEN /\ remoteBranches' = remoteBranches \cup {cb[p]}
                 /\ PrepareReturns(p)
                 /\ Goto(p, "gmp_pick")
            ELSE /\ UNCHANGED <<remoteBranches, currentBranch>>
                 /\ Throw(p, "gitCommandFailed")
  /\ UNCHANGED <<isOperationInProgress, head, localBranches, tracked, status,
                 phase, cb, targetBranch, remoteExists, attempts, conflictFiles>>

\* ------------------------------------------------------------------------
\* MergeWorkflow.gatherMergeParameters
\* ------------------------------------------------------------------------

\* showQuickPick over the configured targets; no selection throws
GatherMergeParameters(p) ==
  /\ pc[p] = "gmp_pick"
  /\ \E selected \in Range(configuredTargets) \cup {NoBranch} :
       /\ IF selected = NoBranch
            THEN /\ Throw(p, "noTargetSelected")
                 /\ UNCHANGED targetBranch
            ELSE /\ targetBranch' = [targetBranch EXCEPT ![p] = selected]
                 /\ Goto(p, "smb_probe")
       /\ Ask(p, IF selected = NoBranch THEN "none" ELSE "selected")
  /\ UNCHANGED <<isOperationInProgress, repoVars, phase, currentBranch, cb,
                 remoteExists, attempts, conflictFiles>>

\* ------------------------------------------------------------------------
\* BranchManager.safeMergeBranch(targetBranch, sourceBranch, conflictHandler)
\* ------------------------------------------------------------------------

\* const remoteExists = await checkRemoteBranchExists(targetBranch); then checkoutBranch
MergeRemoteProbe(p) ==
  /\ pc[p] = "smb_probe"
  /\ \E ok \in BOOLEAN :
       remoteExists' = [remoteExists EXCEPT ![p] = checkRemoteBranchExists(targetBranch[p], ok)]
  /\ phase' = [phase EXCEPT ![p] = "target"]
  /\ Goto(p, "co_local")
  /\ Probe(p)
  /\ UNCHANGED <<isOperationInProgress, repoVars, currentBranch, cb, targetBranch,
                 attempts, conflictFiles>>

\* await this.gitOps.pullBranch(targetBranch)
MergePull(p) ==
  /\ pc[p] = "smb_pull"
  /\ \E ok \in BOOLEAN :
       /\ Mutate(p, "pull", targetBranch[p], ok)
       /\ IF ok THEN Goto(p, "smb_merge") ELSE Throw(p, "gitCommandFailed")
  /\ UNCHANGED <<isOperationInProgress, repoVars, localVars>>

\* await this.gitOps.mergeBranch(sourceBranch); a failed merge may leave conflicts
MergeCommand(p) ==
  /\ pc[p] = "smb_merge"
  /\ \E ok \in BOOLEAN :
       /\ Mutate(p, "merge", currentBranch[p], ok)
       /\ IF ok
            THEN /\ Goto(p, "smb_push")
                 /\ UNCHANGED status
            ELSE /\ Goto(p, "smb_conflicts")
                 /\ \E conflicting \in BOOLEAN :
                      status' = IF conflicting THEN "conflict" ELSE status
  /\ UNCHANGED <<isOperationInProgress, head, localBranches, remoteBranches, tracked,
                 localVars>>

\* variant: a failed merge without conflicts is treated as a finished merge
MergeConflictCheck_ignored(p) ==
  /\ pc[p] = "smb_conflicts"
  /\ \E ok \in BOOLEAN :
       Goto(p, IF checkMergeConflicts(ok) THEN "smb_files" ELSE "smb_push")
  /\ Probe(p)
  /\ UNCHANGED <<isOperationInProgress, repoVars, localVars>>

\* catch (mergeError): const hasConflicts = await checkMergeConflicts()
MergeConflictCheck(p) ==
  /\ pc[p] = "smb_conflicts"
  /\ \E ok \in BOOLEAN :
       IF checkMergeConflicts(ok) THEN Goto(p, "smb_files")
       ELSE Throw(p, "gitCommandFailed")
  /\ Probe(p)
  /\ UNCHANGED <<isOperationInProgress, repoVars, localVars>>

\* handleMergeConflicts up to its first await: an empty list counts as resolved
HandleMergeConflictsEntry(files) == IF Len(files) = 0 THEN "smb_push" ELSE "hmc_prompt"

\* const conflictFiles = await getConflictFiles(); then conflictHandler(conflictFiles)
MergeConflictFiles(p) ==
  /\ pc[p] = "smb_files"
  /\ \E ok \in BOOLEAN :
       /\ conflictFiles' = [conflictFiles EXCEPT ![p] = getConflictFiles(ok)]
       /\ Goto(p, HandleMergeConflictsEntry(getConflictFiles(ok)))
  /\ Probe(p)
  /\ UNCHANGED <<isOperationInProgress, repoVars, phase, currentBranch, cb,
                 targetBranch, remoteExists, attempts>>

\* the restoring part of executeMainMergeFlow starts: checkoutBranch(currentBranch)
RestoreStart(p) ==
  /\ phase' = [phase EXCEPT ![p] = "restore"]
  /\ Goto(p, "co_local")

\* variant: the failure of every push of the target is ignored
PushFailureIgnored_always(p) == TRUE

\* the push with -u sits in a try block with an empty catch
PushFailureIgnored(p) == ~remoteExists[p]

\* variant: pushBranch never passes -u
pushBranch_plain(setUpstream) == "push"

\* pushBranch: `git push -u origin b` if setUpstream, else `git push origin b`
pushBranch(setUpstream) == IF setUpstream THEN "push -u" ELSE "push"

\* push of the target: plain if it had a remote counterpart, else with -u and
\* with the failure ignored
MergePush(p) ==
  /\ pc[p] = "smb_push"
  /\ \E ok \in BOOLEAN :
       /\ Mutate(p, pushBranch(~remoteExists[p]), targetBranch[p], ok)
       /\ IF ok
            THEN /\ remoteBranches' = remoteBranches \cup {targetBranch[p]}
                 /\ tracked' = IF remoteExists[p] THEN tracked
                               ELSE tracked \cup {targetBranch[p]}
                 /\ RestoreStart(p)
            ELSE /\ UNCHANGED <<remoteBranches, tracked>>
                 /\ IF PushFailureIgnored(p)
                      THEN RestoreStart(p)
                      ELSE Throw(p, "gitCommandFailed") /\ UNCHANGED phase
  /\ UNCHANGED <<isOperationInProgress, head, localBranches, status, currentBranch,
                 cb, targetBranch, remoteExists, attempts, conflictFiles>>

\* ------------------------------------------------------------------------
\* MergeWorkflow.handleMergeConflicts / waitForConflictResolution
\* ------------------------------------------------------------------------

\* variant: safeMergeBranch goes on to push although the handler returned false
NotResolved_pushAnyway(p) == Goto(p, "smb_push")

\* the conflict handler returned false: mergeFeatureToTarget throws
NotResolved(p) == Throw(p, "mergeFailed")

\* the three-way choice; "continue" enters the poll loop with attempts = 0
ConflictPrompt(p) ==
  /\ pc[p] = "hmc_prompt"
  /\ \E action \in {"open", "abort", "continue", "none"} :
       /\ Answered(p, action)
       /\ CASE action = "open" -> Goto(p, "hmc_open") /\ UNCHANGED <<attempts, checks>>
            [] action = "abort" -> Goto(p, "hmc_abort") /\ UNCHANGED <<attempts, checks>>
            [] action = "continue" ->
                 /\ attempts' = [attempts EXCEPT ![p] = 0]
                 /\ checks' = [checks EXCEPT ![p] = 0]
                 /\ Goto(p, "wfr_check")
            [] OTHER -> NotResolved(p) /\ UNCHANGED <<attempts, checks>>
  /\ Touch(p)
  /\ UNCHANGED <<isOperationInProgress, repoVars, phase, currentBranch, cb,
                 targetBranch, remoteExists, conflictFiles, msgs,
                 outcome, origHead, ghostVars>>

\* openTextDocument / showTextDocument of the first file, then return false;
\* opening may itself fail
ConflictOpen(p) ==
  /\ pc[p] = "hmc_open"
  /\ \E ok \in BOOLEAN : IF ok THEN NotResolved(p) ELSE Throw(p, "openFailed")
  /\ UNCHANGED <<isOperationInProgress, repoVars, localVars, obsVars>>

\* await this.gitOps.abortMerge(); return false (or the abort itself throws)
AbortMerge(p) ==
  /\ pc[p] \in {"hmc_abort", "wfr_abort"}
  /\ \E ok \in BOOLEAN :
       /\ Mutate(p, "merge --abort", targetBranch[p], ok)
       /\ status' = IF ok THEN "clean" ELSE status
       /\ IF ok THEN NotResolved(p) ELSE Throw(p, "gitCommandFailed")
  /\ UNCHANGED <<isOperationInProgress, head, localBranches, remoteBranches, tracked,
                 localVars>>

\* waitForConflictResolution returns or throws: its locals go out of scope
LeaveLoop(p) ==
  /\ attempts' = [attempts EXCEPT ![p] = 0]
  /\ checks' = [checks EXCEPT ![p] = 0]

\* loop body: const hasConflicts = await checkMergeConflicts()
WaitCheck(p) ==
  /\ pc[p] = "wfr_check"
  /\ \E ok \in BOOLEAN :
       Goto(p, IF checkMergeConflicts(ok) THEN "wfr_wait" ELSE "wfr_dirty")
  /\ Touch(p)
  /\ checks' = [checks EXCEPT ![p] = @ + 1]
  /\ UNCHANGED <<isOperationInProgress, repoVars, localVars, log, msgs,
                 outcome, origHead, ghostVars>>

\* no conflicts left: const hasUnstagedChanges = await checkUncommittedChanges()
WaitDirtyCheck(p) ==
  /\ pc[p] = "wfr_dirty"
  /\ \E ok \in BOOLEAN :
       CASE ~ok -> Throw(p, "gitCommandFailed")
         [] ok /\ status # "clean" -> Goto(p, "wfr_commitPrompt")
         [] OTHER -> Goto(p, "smb_push")
  /\ LeaveLoop(p)
  /\ Touch(p)
  /\ UNCHANGED <<isOperationInProgress, repoVars, phase, currentBranch, cb,
                 targetBranch, remoteExists, conflictFiles, log, msgs, outcome,
                 origHead, ghostVars>>

\* "commit the merge result?": both branches return true
WaitCommitPrompt(p) ==
  /\ pc[p] = "wfr_commitPrompt"
  /\ \E answer \in {"commit", "cancel", "none"} :
       /\ Goto(p, IF answer = "commit" THEN "wfr_add" ELSE "smb_push")
       /\ Ask(p, answer)
  /\ UNCHANGED <<isOperationInProgress, repoVars, localVars>>

\* commitChanges("feat: ..."): `git add .`
WaitAdd(p) ==
  /\ pc[p] = "wfr_add"
  /\ \E ok \in BOOLEAN :
       /\ Mutate(p, "add", targetBranch[p], ok)
       /\ IF ok THEN Goto(p, "wfr_commit") ELSE Throw(p, "gitCommandFailed")
  /\ UNCHANGED <<isOperationInProgress, repoVars, localVars>>

\* commitChanges("feat: ..."): `git commit -m`, then return true
WaitCommit(p) ==
  /\ pc[p] = "wfr_commit"
  /\ \E ok \in BOOLEAN :
       /\ Mutate(p, "commit", targetBranch[p], ok)
       /\ IF ok
            THEN status' = "clean" /\ Goto(p, "smb_push")
            ELSE UNCHANGED status /\ Throw(p, "gitCommandFailed")
  /\ UNCHANGED <<isOperationInProgress, head, localBranches, remoteBranches, tracked,
                 localVars>>

\* variant: attempts is never incremented
NextAttempt_noIncrement(p, n) ==
  /\ Goto(p, "wfr_check")
  /\ UNCHANGED <<attempts, msgs, checks>>

\* attempts++ and the loop condition; leaving the loop shows the timeout error
NextAttempt(p, n) ==
  IF n + 1 < maxAttempts
    THEN /\ attempts' = [attempts EXCEPT ![p] = n + 1]
         /\ Goto(p, "wfr_check")
         /\ UNCHANGED <<msgs, checks>>
    ELSE /\ LeaveLoop(p)
         /\ Show(p, "conflictTimeout")
         /\ NotResolved(p)

\* conflicts remain: "re-check or abort"; anything but abort counts an attempt
WaitPrompt(p) ==
  /\ pc[p] = "wfr_wait"
  /\ \E answer \in {"recheck", "abort", "none"} :
       /\ Answered(p, answer)
       /\ IF answer = "abort"
            THEN /\ Goto(p, "wfr_abort")
                 /\ LeaveLoop(p)
                 /\ UNCHANGED msgs
            ELSE NextAttempt(p, attempts[p])
  /\ Touch(p)
  /\ UNCHANGED <<isOperationInProgress, repoVars, phase, currentBranch, cb,
                 targetBranch, remoteExists, conflictFiles, outcome,
                 origHead, ghostVars>>

\* ------------------------------------------------------------------------
\* MergeWorkflow.executeMainMergeFlow after the restoring checkout
\* ------------------------------------------------------------------------

\* const currentBranchExists = await checkRemoteBranchExists(currentBranch)
RestoreRemoteProbe(p) ==
  /\ pc[p] = "emf_probe"
  /\ \E ok \in BOOLEAN :
       /\ Goto(p, IF checkRemoteBranchExists(currentBranch[p], ok) THEN "eu_probe"
                  ELSE "ret_ok")
       /\ restoreProbe' = [restoreProbe EXCEPT ![p] = IF ok THEN "ok" ELSE "failed"]
  /\ Touch(p)
  /\ UNCHANGED <<isOperationInProgress, repoVars, localVars, log, checks, msgs,
                 outcome, origHead, ensured>>

\* ------------------------------------------------------------------------
\* The user, the only other actor on the repository
\* ------------------------------------------------------------------------

\* the user resolves the conflicts, leaving changes to commit or none
UserResolves ==
  /\ status = "conflict"
  /\ \E s \in {"dirty", "clean"} : status' = s
  /\ UNCHANGED <<isOperationInProgress, head, localBranches, remoteBranches, tracked,
                 pc, error, localVars, obsVars, frameVars>>

\* ------------------------------------------------------------------------
\* Specification
\* ------------------------------------------------------------------------

Step(p) ==
  \/ Invoke(p)
  \/ CheckGitRepository(p)
  \/ GetCurrentBranch(p)
  \/ CheckFeatureBranch(p)
  \/ EnsureRemoteProbe(p)
  \/ EnsureRemotePush(p)
  \/ UncommittedCheck(p)
  \/ UncommittedPrompt(p)
  \/ UncommittedInput(p)
  \/ UncommittedAdd(p)
  \/ UncommittedCommit(p)
  \/ UncommittedPush(p)
  \/ GatherMergeParameters(p)
  \/ MergeRemoteProbe(p)
  \/ CheckoutLocalProbe(p)
  \/ CheckoutRemoteProbe(p)
  \/ CheckoutCommand(p)
  \/ UpstreamRemoteProbe(p)
  \/ UpstreamProbe(p)
  \/ SetUpstream(p)
  \/ UpstreamRetryProbe(p)
  \/ UpstreamRetrySet(p)
  \/ MergePull(p)
  \/ MergeCommand(p)
  \/ MergeConflictCheck(p)
  \/ MergeConflictFiles(p)
  \/ ConflictPrompt(p)
  \/ ConflictOpen(p)
  \/ AbortMerge(p)
  \/ WaitCheck(p)
  \/ WaitDirtyCheck(p)
  \/ WaitCommitPrompt(p)
  \/ WaitAdd(p)
  \/ WaitCommit(p)
  \/ WaitPrompt(p)
  \/ MergePush(p)
  \/ RestoreRemoteProbe(p)
  \/ ReturnOk(p)
  \/ HandleMergeError(p)
  \/ Rethrow(p)
  \/ Forget(p)

Next == (\E p \in Procs : Step(p)) \/ UserResolves

Spec == Init /\ [][Next]_vars

\* ------------------------------------------------------------------------
\* BranchUtils (branchUtils.ts). A string is the sequence of its UTF-16 code
\* units.
\* ------------------------------------------------------------------------

\* longest string enumerated as an input of the validators
MaxLen == 3

\* the code units the enumerated strings are made of:
\* a Z 7 _ - U+4E2D space tab newline / ~ ^ : ? * [ ] \ U+00E9 U+3400
Alphabet ==
  {97, 90, 55, 95, 45, 20013, 32, 9, 10, 47, 126, 94, 58, 63, 42, 91, 93, 92, 233, 13312}

Strings(n) == UNION {[1..k -> Alphabet] : k \in 0..n}

\* s followed by k times the letter a
Padded(s, k) == s \o [i \in 1..k |-> 97]

\* the strings given to the validators: all up to MaxLen, and strings around
\* the length limit of a description
ValidatorInputs ==
  Strings(MaxLen) \cup {Padded(s, k) : s \in Strings(2), k \in {48, 49}}

\* WhiteSpace and LineTerminator code units, which String.prototype.trim strips
IsWhiteSpace(c) ==
  c \in {9, 10, 11, 12, 13, 32, 160, 5760, 8232, 8233, 8239, 8287, 12288, 65279}
        \cup 8192..8202

\* String.prototype.trim
trim(s) ==
  LET kept == {i \in DOMAIN s : ~IsWhiteSpace(s[i])}
      first == CHOOSE i \in kept : \A j \in kept : i <= j
      last == CHOOSE i \in kept : \A j \in kept : j <= i
  IN IF kept = {} THEN <<>> ELSE SubSeq(s, first, last)

\* String.prototype.includes / startsWith / endsWith
includes(s, sub) ==
  \E i \in 1..(Len(s) - Len(sub) + 1) : SubSeq(s, i, i + Len(sub) - 1) = sub
startsWith(s, sub) == Len(s) >= Len(sub) /\ SubSeq(s, 1, Len(sub)) = sub
endsWith(s, sub) ==
  Len(s) >= Len(sub) /\ SubSeq(s, Len(s) - Len(sub) + 1, Len(s)) = sub

\* the character class [a-zA-Z0-9一-龥_-]
DescriptionChar(c) ==
  c \in 97..122 \cup 65..90 \cup 48..57 \cup 19968..40869 \cup {95, 45}

\* the character class [a-zA-Z0-9_-]
PrefixChar(c) == c \in 97..122 \cup 65..90 \cup 48..57 \cup {95, 45}

\* the character class [~^:?*[\]\\]
InvalidChar(c) == c \in {126, 94, 58, 63, 42, 91, 93, 92}

\* variant: no limit on the length of a description
validateDescription_noLimit(description) ==
  IF description = <<>> \/ Len(trim(description)) = 0
    THEN [isValid |-> FALSE, error |-> "descriptionEmpty"]
  ELSE IF \E i \in DOMAIN description : ~DescriptionChar(description[i])
    THEN [isValid |-> FALSE, error |-> "descriptionIllegalCharacter"]
  ELSE [isValid |-> TRUE]

\* BranchUtils.validateDescription
validateDescription(description) ==
  IF description = <<>> \/ Len(trim(description)) = 0
    THEN [isValid |-> FALSE, error |-> "descriptionEmpty"]
  ELSE IF Len(description) > 50
    THEN [isValid |-> FALSE, error |-> "descriptionTooLong"]
  ELSE IF \E i \in DOMAIN description : ~DescriptionChar(description[i])
    THEN [isValid |-> FALSE, error |-> "descriptionIllegalCharacter"]
  ELSE [isValid |-> TRUE]

\* BranchUtils.validatePrefix
validatePrefix(prefix) ==
  IF prefix = <<>> \/ Len(trim(prefix)) = 0
    THEN [isValid |-> FALSE, error |-> "prefixEmpty"]
  ELSE IF \E i \in DOMAIN prefix : ~PrefixChar(prefix[i])
    THEN [isValid |-> FALSE, error |-> "prefixIllegalCharacter"]
  ELSE [isValid |-> TRUE]

\* BranchUtils.validateBranchName
validateBranchName(branchName) ==
  IF branchName = <<>> \/ Len(trim(branchName)) = 0
    THEN [isValid |-> FALSE, error |-> "nameEmpty"]
  ELSE IF includes(branchName, <<47, 47>>)
    THEN [isValid |-> FALSE, error |-> "nameDoubleSlash"]
  ELSE IF startsWith(branchName, <<47>>) \/ endsWith(branchName, <<47>>)
    THEN [isValid |-> FALSE, error |-> "nameSlashAtEnd"]
  ELSE IF includes(branchName, <<32>>)
    THEN [isValid |-> FALSE, error |-> "nameSpace"]
  ELSE IF \E i \in DOMAIN branchName : InvalidChar(branchName[i])
    THEN [isValid |-> FALSE, error |-> "nameUnsupportedCharacter"]
  ELSE [isValid |-> TRUE]

\* BranchUtils.generateBranchName: `${prefix}/${date}/${description}_${username}`
generateBranchName(options) ==
  options.prefix \o <<47>> \o options.date \o <<47>> \o options.description
    \o <<95>> \o options.username

\* String(n) of a natural number
RECURSIVE String(_)
String(n) == IF n < 10 THEN <<48 + n>> ELSE String(n \div 10) \o <<48 + (n % 10)>>

\* String.prototype.padStart(2, '0')
padStart2(s) == IF Len(s) >= 2 THEN s ELSE [i \in 1..(2 - Len(s)) |-> 48] \o s

\* BranchUtils.formatDate; date.month is getMonth(), counted from 0
formatDate(date, format) ==
  LET year == String(date.year)
      month == padStart2(String(date.month + 1))
      day == padStart2(String(date.day))
  IN CASE format = "yyyy-MM-dd" -> year \o <<45>> \o month \o <<45>> \o day
       [] format = "yyMMdd" -> SubSeq(year, 3, Len(year)) \o month \o day
       [] OTHER -> year \o month \o day

\* getGitUsername: the configured name, or the output of `git config user.name`,
\* is taken as it is unless it is empty
usernameAccepted(username) == username # <<>>

\* the repository and the workflows are not involved in a call of a pure function
Quiet ==
  /\ NoMerge
  /\ NoManage
  /\ NoQuick
  /\ NoPrefixes
  /\ NoCreation
  /\ head = NoBranch
  /\ localBranches = {}
  /\ remoteBranches = {}
  /\ tracked = {}
  /\ status = "clean"
  /\ configuredTargets = TargetBranches

\* a call returns
Return(f, value) ==
  /\ fn' = f
  /\ ret' = Append(ret, value)
  /\ UNCHANGED <<args, repoVars, mergeVars, creationVars, auxVars>>

\* --- the validators applied to one string ---

InitValidate == Quiet /\ fn = "none" /\ ret = <<>> /\ args \in ValidatorInputs

ValidateDescription == fn = "none" /\ Return("validateDescription", validateDescription(args))
ValidatePrefix == fn = "none" /\ Return("validatePrefix", validatePrefix(args))
ValidateBranchName == fn = "none" /\ Return("validateBranchName", validateBranchName(args))

NextValidate == ValidateDescription \/ ValidatePrefix \/ ValidateBranchName

SpecValidate == InitValidate /\ [][NextValidate]_vars

\* --- a name generated from its four components, twice, and validated ---

\* prefixes: fix, "a b", empty
GenPrefixes == {<<102, 105, 120>>, <<97, 32, 98>>, <<>>}
\* descriptions: ui, U+4E2D, "a b", empty
GenDescriptions == {<<117, 105>>, <<20013>>, <<97, 32, 98>>, <<>>}
\* user names: leo, "Leo Wei", x/, empty
GenUsernames == {<<108, 101, 111>>, <<76, 101, 111, 32, 87, 101, 105>>, <<120, 47>>, <<>>}
\* what formatDate returns for two days and every format
GenDates ==
  {formatDate(d, f) :
     d \in {[year |-> 2025, month |-> 0, day |-> 1],
            [year |-> 2025, month |-> 11, day |-> 31]},
     f \in {"yyyyMMdd", "yyyy-MM-dd", "yyMMdd", "unknown"}}

InitGenerate ==
  /\ Quiet /\ fn = "none" /\ ret = <<>>
  /\ args \in [prefix : GenPrefixes, date : GenDates, description : GenDescriptions,
               username : GenUsernames]

GenerateBranchName ==
  /\ fn \in {"none", "generateBranchName"}
  /\ Len(ret) < 2
  /\ Return("generateBranchName", generateBranchName(args))

ValidateGenerated ==
  /\ fn = "generateBranchName"
  /\ Len(ret) = 2
  /\ Return("validateBranchName", validateBranchName(ret[1]))

NextGenerate == GenerateBranchName \/ ValidateGenerated

SpecGenerate == InitGenerate /\ [][NextGenerate]_vars

\* ------------------------------------------------------------------------
\* The list offered for the selection of the base branch
\* (BranchCreator.selectBaseBranch)
\* ------------------------------------------------------------------------

\* most branches in an enumerated list
MaxBranches == 4

\* names of local branches: ab, Aa, a_b, a1, z
LocalNames == {<<97, 98>>, <<65, 97>>, <<97, 95, 98>>, <<97, 49>>, <<122>>}
\* names of remote-tracking branches: o/ab, o/Aa
RemoteNames == {<<111, 47, 97, 98>>, <<111, 47, 65, 97>>}

\* the GitBranch entries getAllBranches can build when `current` is the output
\* of `git branch --show-current` (<<>> on a detached HEAD)
GitBranches(current) ==
  {[name |-> n, current |-> n = current, isRemote |-> FALSE] : n \in LocalNames}
    \cup {[name |-> n, current |-> FALSE, isRemote |-> TRUE] : n \in RemoteNames}

\* the lists getAllBranches can return, in any order: names are unique within
\* a class and at most one entry is current
BranchLists ==
  UNION {{s \in UNION {[1..k -> GitBranches(current)] : k \in 0..MaxBranches} :
            \A i, j \in DOMAIN s : i # j => s[i] # s[j]} :
         current \in LocalNames \cup {<<>>}}

\* primary collation weight of a code unit in the root collation: punctuation
\* (_ - /) before digits before letters, a letter and its capital alike, other
\* scripts behind
PrimaryWeight(c) ==
  CASE c = 95 -> 1
    [] c = 45 -> 2
    [] c = 47 -> 3
    [] c \in 48..57 -> 10 + (c - 48)
    [] c \in 97..122 -> 100 + (c - 97)
    [] c \in 65..90 -> 100 + (c - 65)
    [] OTHER -> 1000 + c

\* tertiary weight: a small letter before its capital
TertiaryWeight(c) == IF c \in 65..90 THEN 1 ELSE 0

\* lexicographic comparison of two sequences of weights: -1, 0 or 1
compareWeights(x, y) ==
  LET differ == {i \in 1..Len(x) : i > Len(y) \/ x[i] # y[i]}
      first == CHOOSE i \in differ : \A j \in differ : i <= j
  IN IF differ = {} THEN (IF Len(x) < Len(y) THEN -1 ELSE 0)
     ELSE IF first > Len(y) THEN 1
     ELSE IF x[first] < y[first] THEN -1 ELSE 1

\* String.prototype.localeCompare: the primary weights decide, then the case
localeCompare(x, y) ==
  LET primary == compareWeights([i \in DOMAIN x |-> PrimaryWeight(x[i])],
                                [i \in DOMAIN y |-> PrimaryWeight(y[i])])
      tertiary == compareWeights([i \in DOMAIN x |-> TertiaryWeight(x[i])],
                                 [i \in DOMAIN y |-> TertiaryWeight(y[i])])
  IN IF primary # 0 THEN primary ELSE tertiary

\* variant: local and remote branches are not told apart
compareBranches_noClass(a, b) ==
  IF a.current THEN -1
  ELSE IF b.current THEN 1
  ELSE localeCompare(a.name, b.name)

\* the comparator given to sort
compareBranches(a, b) ==
  IF a.current THEN -1
  ELSE IF b.current THEN 1
  ELSE IF ~a.isRemote /\ b.isRemote THEN -1
  ELSE IF a.isRemote /\ ~b.isRemote THEN 1
  ELSE localeCompare(a.name, b.name)

\* x put into the sorted list t, behind the last entry that is not after it
insert(t, x) ==
  LET notAfter == {i \in DOMAIN t : compareBranches(t[i], x) <= 0}
      p == IF notAfter = {} THEN 0 ELSE CHOOSE i \in notAfter : \A j \in notAfter : j <= i
  IN SubSeq(t, 1, p) \o <<x>> \o SubSeq(t, p + 1, Len(t))

\* Array.prototype.sort with compareBranches (stable)
RECURSIVE sort(_)
sort(branches) ==
  IF branches = <<>> THEN <<>>
  ELSE insert(sort(SubSeq(branches, 1, Len(branches) - 1)), branches[Len(branches)])

InitSort == Quiet /\ fn = "none" /\ ret = <<>> /\ args \in BranchLists

SortBranches == fn = "none" /\ Return("sort", sort(args))

NextSort == SortBranches

SpecSort == InitSort /\ [][NextSort]_vars

\* ------------------------------------------------------------------------
\* The conflict classifier on the text of `git status --porcelain`
\* (GitOperations.checkMergeConflicts)
\* ------------------------------------------------------------------------

\* most lines in a status output
MaxLines == 3

\* variant: UD is not taken for a conflict
ConflictCodes_noUD ==
  {<<85, 85>>, <<65, 65>>, <<68, 68>>, <<65, 85>>, <<85, 65>>, <<68, 85>>}

\* ["UU", "AA", "DD", "AU", "UA", "DU", "UD"]
ConflictCodes ==
  {<<85, 85>>, <<65, 65>>, <<68, 68>>, <<65, 85>>, <<85, 65>>, <<68, 85>>, <<85, 68>>}

\* the codes of the enumerated outputs: UU AA DD AU UA DU UD, and "M ", " M",
\* "A ", "??", "D ", " D", "MM", "AM"
StatusCodes ==
  {<<85, 85>>, <<65, 65>>, <<68, 68>>, <<65, 85>>, <<85, 65>>, <<68, 85>>, <<85, 68>>,
   <<77, 32>>, <<32, 77>>, <<65, 32>>, <<63, 63>>, <<68, 32>>, <<32, 68>>,
   <<77, 77>>, <<65, 77>>}

\* paths of the enumerated outputs: f, UU, g
StatusPaths == {<<102>>, <<85, 85>>, <<103>>}

\* the entries of a status, each path once
StatusEntries ==
  {s \in UNION {[1..k -> [code : StatusCodes, path : StatusPaths]] :
                  k \in 0..MaxLines} :
     \A i, j \in DOMAIN s : i # j => s[i].path # s[j].path}

\* what `git status --porcelain` writes: a line "XY path" for each entry
RECURSIVE porcelain(_)
porcelain(entries) ==
  IF entries = <<>> THEN <<>>
  ELSE entries[1].code \o <<32>> \o entries[1].path \o <<10>> \o porcelain(Tail(entries))

\* String.prototype.split("\n")
RECURSIVE split(_)
split(s) ==
  LET breaks == {i \in DOMAIN s : s[i] = 10}
      first == CHOOSE i \in breaks : \A j \in breaks : i <= j
  IN IF breaks = {} THEN <<s>>
     ELSE <<SubSeq(s, 1, first - 1)>> \o split(SubSeq(s, first + 1, Len(s)))

\* String.prototype.substring(0, 2)
substring02(line) == SubSeq(line, 1, IF Len(line) < 2 THEN Len(line) ELSE 2)

\* execGitCommand: the trimmed output of a command that succeeded
execGitCommand(stdout, ok) ==
  IF ok THEN [threw |-> FALSE, stdout |-> trim(stdout)] ELSE [threw |-> TRUE]

\* checkMergeConflicts on the output of the status command
checkMergeConflictsOn(stdout, ok) ==
  LET status_ == execGitCommand(stdout, ok)
      lines == split(status_.stdout)
  IN IF status_.threw THEN FALSE
     ELSE \E i \in DOMAIN lines : substring02(lines[i]) \in ConflictCodes

InitClassify ==
  /\ Quiet /\ fn = "none" /\ ret = <<>>
  /\ args \in [entries : StatusEntries, ok : BOOLEAN]

CheckMergeConflicts ==
  /\ fn = "none"
  /\ Return("checkMergeConflicts", checkMergeConflictsOn(porcelain(args.entries), args.ok))

NextClassify == CheckMergeConflicts

SpecClassify == InitClassify /\ [][NextClassify]_vars

\* ------------------------------------------------------------------------
\* The existence probes on the outcome of their command
\* ------------------------------------------------------------------------

MaxOutput == 2

\* variant: any successful `ls-remote` counts as "the branch exists"
checkRemoteBranchExistsOn_anyOutput(stdout, ok) ==
  [threw |-> FALSE, value |-> ~execGitCommand(stdout, ok).threw]

\* checkRemoteBranchExists: `git ls-remote --heads origin b`, true iff it printed
\* something; the catch block returns false
checkRemoteBranchExistsOn(stdout, ok) ==
  LET remoteBranch == execGitCommand(stdout, ok)
  IN IF remoteBranch.threw THEN [threw |-> FALSE, value |-> FALSE]
     ELSE [threw |-> FALSE, value |-> remoteBranch.stdout # <<>>]

\* checkLocalBranchExists: `git rev-parse --verify b`, true iff it succeeded
checkLocalBranchExistsOn(stdout, ok) ==
  IF execGitCommand(stdout, ok).threw THEN [threw |-> FALSE, value |-> FALSE]
  ELSE [threw |-> FALSE, value |-> TRUE]

\* BranchCreator.branchExists: the same probe in the creation flow
branchExistsOn(stdout, ok) ==
  IF execGitCommand(stdout, ok).threw THEN [threw |-> FALSE, value |-> FALSE]
  ELSE [threw |-> FALSE, value |-> TRUE]

InitProbe ==
  /\ Quiet /\ fn = "none" /\ ret = <<>>
  /\ args \in [stdout : Strings(MaxOutput), ok : BOOLEAN]

CheckRemoteBranchExists ==
  /\ fn = "none"
  /\ Return("checkRemoteBranchExists", checkRemoteBranchExistsOn(args.stdout, args.ok))

CheckLocalBranchExists ==
  /\ fn = "none"
  /\ Return("checkLocalBranchExists", checkLocalBranchExistsOn(args.stdout, args.ok))

BranchExistsProbe ==
  /\ fn = "none"
  /\ Return("branchExists", branchExistsOn(args.stdout, args.ok))

NextProbe == CheckRemoteBranchExists \/ CheckLocalBranchExists \/ BranchExistsProbe

SpecProbe == InitProbe /\ [][NextProbe]_vars

\* ------------------------------------------------------------------------
\* Feature-branch eligibility on branch names as text
\* ------------------------------------------------------------------------

MaxName == 4

\* the letters f, F and x, and the slash
NameAlphabet == {102, 70, 120, 47}
BranchNames == UNION {[1..k -> NameAlphabet] : k \in 0..MaxName}
\* the prefixes f, F and xf, and the configured lists of one or two of them
PrefixNames == {<<102>>, <<70>>, <<120, 102>>}
PrefixLists == UNION {[1..k -> PrefixNames] : k \in 1..2}

\* String.prototype.toLowerCase on Basic Latin
toLowerCase(s) == [i \in DOMAIN s |-> IF s[i] \in 65..90 THEN s[i] + 32 ELSE s[i]]

\* Array.prototype.join(", ")
RECURSIVE join(_)
join(list) ==
  IF Len(list) = 0 THEN <<>>
  ELSE IF Len(list) = 1 THEN list[1]
  ELSE list[1] \o <<44, 32>> \o join(Tail(list))

\* variant: the prefix may stand anywhere in the name
checkFeatureBranchOn_includes(name, branchPrefixes) ==
  \E i \in DOMAIN branchPrefixes :
    includes(toLowerCase(name), toLowerCase(branchPrefixes[i]))

\* BranchManager.checkFeatureBranch on the name printed by getCurrentBranch
checkFeatureBranchOn(name, branchPrefixes) ==
  \E i \in DOMAIN branchPrefixes :
    startsWith(toLowerCase(name), toLowerCase(branchPrefixes[i]) \o <<47>>)

\* prepareMergeEnvironment from the branch check to its error
verifyFeatureBranch(name, branchPrefixes) ==
  IF checkFeatureBranchOn(name, branchPrefixes)
    THEN [accepted |-> TRUE, patterns |-> <<>>]
    ELSE [accepted |-> FALSE, patterns |-> join(branchPrefixes)]

InitEligible ==
  /\ Quiet /\ fn = "none" /\ ret = <<>>
  /\ args \in [currentBranch : BranchNames, branchPrefixes : PrefixLists]

VerifyFeatureBranch ==
  /\ fn = "none"
  /\ Return("checkFeatureBranch", verifyFeatureBranch(args.currentBranch, args.branchPrefixes))

NextEligible == VerifyFeatureBranch

SpecEligible == InitEligible /\ [][NextEligible]_vars

\* ------------------------------------------------------------------------
\* GitOperations.ensureBranchUpstream on the outcomes of its commands
\* ------------------------------------------------------------------------

\* the branch names u and d, and origin/b
UpstreamBranches == {<<117>>, <<100>>}
origin(b) == <<111, 114, 105, 103, 105, 110, 47>> \o b
\* what `rev-parse --abbrev-ref b@{upstream}` may print: origin/u, origin/d, each
\* with its line end, and u/d of another remote
UpstreamOutputs ==
  {origin(b) : b \in UpstreamBranches}
    \cup {origin(b) \o <<10>> : b \in UpstreamBranches} \cup {<<117, 47, 100>>}

\* the outcomes of the commands of one call: the remote probe, the upstream
\* probe, the set-upstream command and whether its error text holds "no
\* upstream", the remote probe and the set-upstream command of the catch block
UpstreamOutcomes ==
  [remoteExists : BOOLEAN, upstreamOk : BOOLEAN, upstream : UpstreamOutputs,
   setOk : BOOLEAN, noUpstream : BOOLEAN, remoteExistsAgain : BOOLEAN,
   setAgainOk : BOOLEAN]

setUpstreamTo(b) == <<"branch --set-upstream-to", origin(b), b>>

\* variant: the upstream is set whenever the remote branch exists
ensureBranchUpstreamOn_always(b, o) ==
  IF ~o.remoteExists THEN [issued |-> <<>>, threw |-> FALSE]
  ELSE [issued |-> <<setUpstreamTo(b)>>, threw |-> FALSE]

\* ensureBranchUpstream(b): the mutating commands it issues, and whether it throws
ensureBranchUpstreamOn(b, o) ==
  LET upstream == execGitCommand(o.upstream, o.upstreamOk)
  IN IF ~o.remoteExists THEN [issued |-> <<>>, threw |-> FALSE]
     ELSE IF ~upstream.threw /\ upstream.stdout = origin(b)
       THEN [issued |-> <<>>, threw |-> FALSE]
     ELSE IF o.setOk THEN [issued |-> <<setUpstreamTo(b)>>, threw |-> FALSE]
     ELSE IF o.noUpstream /\ o.remoteExistsAgain
       THEN [issued |-> <<setUpstreamTo(b), setUpstreamTo(b)>>, threw |-> ~o.setAgainOk]
     ELSE [issued |-> <<setUpstreamTo(b)>>, threw |-> FALSE]

InitUpstream ==
  /\ Quiet /\ fn = "none" /\ ret = <<>>
  /\ args \in [branchName : UpstreamBranches, outcomes : UpstreamOutcomes]

EnsureBranchUpstream ==
  /\ fn = "none"
  /\ Return("ensureBranchUpstream", ensureBranchUpstreamOn(args.branchName, args.outcomes))

NextUpstream == EnsureBranchUpstream

SpecUpstream == InitUpstream /\ [][NextUpstream]_vars

\* ------------------------------------------------------------------------
\* Branch creation (BranchCreator.createBranch). Every branch name of this
\* part is a string of code units.
\* ------------------------------------------------------------------------

\* most times "re-enter" is answered in one run of the command
MaxReentries == 1

\* main, and the remote-tracking branch o/main
Main == <<109, 97, 105, 110>>
RemoteMain == <<111, 47, 109, 97, 105, 110>>
\* user names leo and "Leo Wei"
Leo == <<108, 101, 111>>
LeoWei == <<76, 101, 111, 32, 87, 101, 105>>
\* descriptions the user types: ui, api, "a b"
Ui == <<117, 105>>
Descriptions == {Ui, <<97, 112, 105>>, <<97, 32, 98>>}
\* new Date()
Today == [year |-> 2025, month |-> 0, day |-> 1]

\* a branch made by an earlier run: fix/20250101/ui_leo
ExistingBranch ==
  generateBranchName([prefix |-> PrefixFix, date |-> formatDate(Today, "yyyyMMdd"),
                      description |-> Ui, username |-> Leo])

\* the settings of the extension, and user.name of the git configuration
CreationConfigs ==
  [branchPrefixes : {<<>>, <<PrefixFix>>, <<PrefixFix, PrefixFeat>>},
   customGitName : {<<>>, Leo},
   dateFormat : {"yyyyMMdd", "yyyy-MM-dd"},
   autoCheckout : BOOLEAN,
   userName : {<<>>, Leo, LeoWei}]

\* the locals of an invocation of createBranch; depth counts the invocations
\* that await this one
NewLocals(depth) ==
  [depth |-> depth, selectedPrefix |-> <<>>, baseBranch |-> <<>>, username |-> <<>>,
   description |-> <<>>, branchName |-> <<>>, action |-> "none"]

\* the order of refnames in the output of `git branch`
refnameBefore(x, y) ==
  \E i \in 1..Len(y) :
    /\ i <= Len(x) + 1
    /\ \A j \in 1..(i - 1) : x[j] = y[j]
    /\ (i = Len(x) + 1 \/ x[i] < y[i])

\* the names of a set of branches as `git branch` lists them
RECURSIVE listing(_)
listing(names) ==
  IF names = {} THEN <<>>
  ELSE LET first == CHOOSE x \in names : \A y \in names \ {x} : refnameBefore(x, y)
       IN <<first>> \o listing(names \ {first})

\* getAllBranches: the local branches, then the remote branches unless their
\* command failed; the current branch is unknown when its command failed
getAllBranches(okCurrent, okRemote) ==
  LET currentBranch_ == IF okCurrent THEN head ELSE <<>>
      locals == listing(localBranches)
      remotes == IF okRemote THEN listing(remoteBranches) ELSE <<>>
  IN [i \in DOMAIN locals |->
        [name |-> locals[i], current |-> locals[i] = currentBranch_, isRemote |-> FALSE]]
     \o [i \in DOMAIN remotes |->
           [name |-> remotes[i], current |-> FALSE, isRemote |-> TRUE]]

\* isRemoteBranch: the name holds a slash and does not start with refs/heads/
isRemoteBranch(branchName) ==
  /\ includes(branchName, <<47>>)
  /\ ~startsWith(branchName, <<114, 101, 102, 115, 47, 104, 101, 97, 100, 115, 47>>)

\* validateInput of the description input box: "null" when the value is accepted
validateInput(prefix, username, currentDate, value) ==
  LET validation == validateDescription(value)
      branchValidation ==
        validateBranchName(generateBranchName(
          [prefix |-> prefix, description |-> value, username |-> username,
           date |-> currentDate]))
  IN IF value = <<>> THEN "descriptionEmpty"
     ELSE IF ~validation.isValid THEN validation.error
     ELSE IF ~branchValidation.isValid THEN branchValidation.error
     ELSE "null"

\* the flow goes on to its next await
Continue(l) == cpc' = l /\ UNCHANGED <<cresult, cmsgs>>

\* createBranch returns, having shown some messages
Done(result, shown) ==
  /\ cpc' = "done"
  /\ cresult' = <<result>>
  /\ cmsgs' = cmsgs \cup shown

\* return { success: false, error }
Failure(e) == [success |-> FALSE, error |-> e]

\* the catch of createBranch: error dialog and failure result
Caught(e) == Done(Failure(e), {<<"error", e>>})

\* what a step of createBranch that issues no mutating command leaves alone
ReadOnly == UNCHANGED <<repoVars, clog, creationConfig, mergeVars, callVars, auxVars>>

InitCreate ==
  /\ NoMerge /\ NoCall /\ NoManage /\ NoQuick /\ NoPrefixes
  /\ configuredTargets = TargetBranches
  /\ cpc = "idle" /\ creation = <<>> /\ cresult = <<>> /\ clog = <<>> /\ cmsgs = {}
  /\ creationConfig \in CreationConfigs
  /\ localBranches \in {{}, {Main}, {Main, ExistingBranch}}
  /\ head \in localBranches \cup {NoBranch}
  /\ remoteBranches \in {{}, {RemoteMain}}
  /\ tracked = {}
  /\ status = "clean"

\* the command gitWorkflowHelper.createBranch is run
StartCreation ==
  /\ cpc = "idle"
  /\ cpc' = "isGitRepository"
  /\ creation' = NewLocals(0)
  /\ UNCHANGED <<cresult, cmsgs>>
  /\ ReadOnly

\* const isGitRepo = await this.isGitRepository()
IsGitRepository ==
  /\ cpc = "isGitRepository"
  /\ \E ok \in BOOLEAN :
       IF ok THEN Continue("selectBranchPrefix") ELSE Caught("notGitRepository")
  /\ UNCHANGED creation
  /\ ReadOnly

\* const selectedPrefix = await this.selectBranchPrefix()
SelectBranchPrefix ==
  /\ cpc = "selectBranchPrefix"
  /\ LET prefixes == creationConfig.branchPrefixes
     IN IF Len(prefixes) = 0
          THEN Caught("noPrefixes") /\ UNCHANGED creation
        ELSE IF Len(prefixes) = 1
          THEN /\ Continue("selectBaseBranch")
               /\ creation' = [creation EXCEPT !.selectedPrefix = prefixes[1]]
        ELSE \E selected \in {prefixes[i] : i \in DOMAIN prefixes} \cup {<<>>} :
               IF selected = <<>>
                 THEN Done(Failure("prefixNotSelected"), {}) /\ UNCHANGED creation
                 ELSE /\ Continue("selectBaseBranch")
                      /\ creation' = [creation EXCEPT !.selectedPrefix = selected]
  /\ ReadOnly

\* const baseBranch = await this.selectBaseBranch()
SelectBaseBranch ==
  /\ cpc = "selectBaseBranch"
  /\ \E okCurrent, okLocal, okRemote \in BOOLEAN :
       LET branches == getAllBranches(okCurrent, okRemote)
           sortedBranches == sort(branches)
       IN IF ~okLocal THEN Caught("listBranchesFailed") /\ UNCHANGED creation
          ELSE IF Len(branches) = 0 THEN Caught("noBranches") /\ UNCHANGED creation
          ELSE \E selected \in {sortedBranches[i].name : i \in DOMAIN sortedBranches}
                                 \cup {<<>>} :
                 IF selected = <<>>
                   THEN Done(Failure("baseNotSelected"), {}) /\ UNCHANGED creation
                   ELSE /\ Continue("getGitUsername")
                        /\ creation' = [creation EXCEPT !.baseBranch = selected]
  /\ ReadOnly

\* const username = await this.getGitUsername()
GetGitUsername ==
  /\ cpc = "getGitUsername"
  /\ IF creationConfig.customGitName # <<>>
       THEN /\ Continue("inputBranchDescription")
            /\ creation' = [creation EXCEPT !.username = creationConfig.customGitName]
       ELSE \E ok \in BOOLEAN :
              IF ok /\ trim(creationConfig.userName) # <<>>
                THEN /\ Continue("inputBranchDescription")
                     /\ creation' = [creation EXCEPT !.username = trim(creationConfig.userName)]
                ELSE Caught("usernameFailed") /\ UNCHANGED creation
  /\ ReadOnly

\* const description = await this.inputBranchDescription(...), then the name is
\* generated; <<>> stands for a dismissed input box
InputBranchDescription ==
  /\ cpc = "inputBranchDescription"
  /\ LET currentDate == formatDate(Today, creationConfig.dateFormat)
     IN \E value \in Descriptions \cup {<<>>} :
          /\ value # <<>> =>
               validateInput(creation.selectedPrefix, creation.username, currentDate, value)
                 = "null"
          /\ IF value = <<>>
               THEN Done(Failure("descriptionMissing"), {}) /\ UNCHANGED creation
               ELSE /\ Continue("branchExists")
                    /\ creation' =
                         [creation EXCEPT
                            !.description = value,
                            !.branchName =
                              generateBranchName(
                                [prefix |-> creation.selectedPrefix, description |-> value,
                                 username |-> creation.username, date |-> currentDate])]
  /\ ReadOnly

\* const exists = await this.branchExists(branchName): `git rev-parse --verify`
\* finds the name among the refs; a failing command counts as absent
BranchExists ==
  /\ cpc = "branchExists"
  /\ \E ok \in BOOLEAN :
       LET exists == ok /\ creation.branchName \in localBranches \cup remoteBranches
       IN Continue(IF exists THEN "existsPrompt" ELSE "confirmBranchCreation")
  /\ UNCHANGED creation
  /\ ReadOnly

\* variant: "re-enter" goes back to the description input with the selections kept
ExistsPrompt_description ==
  /\ cpc = "existsPrompt"
  /\ \E action \in {"checkout", "reenter", "cancel", "none"} :
       CASE action = "checkout" ->
              /\ Continue("checkoutBranch")
              /\ creation' = [creation EXCEPT !.action = action]
         [] action = "reenter" ->
              /\ creation.depth < MaxReentries
              /\ Continue("inputBranchDescription")
              /\ creation' = [creation EXCEPT !.depth = @ + 1]
         [] OTHER ->
              /\ Done(Failure("creationCancelled"), {})
              /\ creation' = [creation EXCEPT !.action = action]
  /\ ReadOnly

\* const action = await vscode.window.showWarningMessage(... already exists ...)
ExistsPrompt ==
  /\ cpc = "existsPrompt"
  /\ \E action \in {"checkout", "reenter", "cancel", "none"} :
       CASE action = "checkout" ->
              /\ Continue("checkoutBranch")
              /\ creation' = [creation EXCEPT !.action = action]
         [] action = "reenter" ->
              /\ creation.depth < MaxReentries
              /\ Continue("isGitRepository")
              /\ creation' = NewLocals(creation.depth + 1)
         [] OTHER ->
              /\ Done(Failure("creationCancelled"), {})
              /\ creation' = [creation EXCEPT !.action = action]
  /\ ReadOnly

\* variant: a failed checkout is not reported
CheckoutBranch_silent ==
  /\ cpc = "checkoutBranch"
  /\ \E ok \in BOOLEAN :
       /\ ok => creation.branchName \in localBranches \cup remoteBranches
       /\ clog' = Append(clog, <<"checkout", creation.branchName, ok>>)
       /\ head' = IF ~ok THEN head
                  ELSE IF creation.branchName \in localBranches THEN creation.branchName
                  ELSE NoBranch
       /\ Done([success |-> TRUE, branchName |-> creation.branchName],
               {<<"info", "switched">>})
  /\ UNCHANGED <<creation, creationConfig, localBranches, remoteBranches, tracked, status,
                 mergeVars, callVars, auxVars>>

\* await this.checkoutBranch(branchName); return { success: true, branchName }
CheckoutBranch ==
  /\ cpc = "checkoutBranch"
  /\ \E ok \in BOOLEAN :
       /\ ok => creation.branchName \in localBranches \cup remoteBranches
       /\ clog' = Append(clog, <<"checkout", creation.branchName, ok>>)
       /\ IF ok
            THEN /\ head' = IF creation.branchName \in localBranches
                              THEN creation.branchName ELSE NoBranch
                 /\ Done([success |-> TRUE, branchName |-> creation.branchName],
                         {<<"info", "switched">>})
            ELSE /\ Caught("checkoutFailed")
                 /\ UNCHANGED head
  /\ UNCHANGED <<creation, creationConfig, localBranches, remoteBranches, tracked, status,
                 mergeVars, callVars, auxVars>>

\* variant: declining the confirmation is reported as an error
ConfirmBranchCreation_dialog ==
  /\ cpc = "confirmBranchCreation"
  /\ \E confirmed \in {"confirm", "cancel", "none"} :
       IF confirmed = "confirm" THEN Continue("createAndCheckoutBranch")
       ELSE Caught("creationNotConfirmed")
  /\ UNCHANGED creation
  /\ ReadOnly

\* const confirmed = await this.confirmBranchCreation(branchCreationOptions)
ConfirmBranchCreation ==
  /\ cpc = "confirmBranchCreation"
  /\ \E confirmed \in {"confirm", "cancel", "none"} :
       IF confirmed = "confirm" THEN Continue("createAndCheckoutBranch")
       ELSE Done(Failure("creationNotConfirmed"), {})
  /\ UNCHANGED creation
  /\ ReadOnly

\* createAndCheckoutBranch: `git checkout -b name base` or `git branch name base`;
\* git gives the new branch an upstream when the base is a remote-tracking branch
CreateAndCheckoutBranch ==
  /\ cpc = "createAndCheckoutBranch"
  /\ \E ok \in BOOLEAN :
       LET name == creation.branchName
           base == creation.baseBranch
       IN /\ ok => name \notin localBranches /\ base \in localBranches \cup remoteBranches
          /\ clog' = Append(clog, <<IF creationConfig.autoCheckout THEN "checkout -b"
                                    ELSE "branch", name, ok>>)
          /\ IF ok
               THEN /\ localBranches' = localBranches \cup {name}
                    /\ head' = IF creationConfig.autoCheckout THEN name ELSE head
                    /\ tracked' = IF base \in remoteBranches THEN tracked \cup {name}
                                  ELSE tracked
                    /\ IF isRemoteBranch(base)
                         THEN /\ cpc' = "unsetUpstream"
                              /\ cmsgs' = cmsgs \cup {<<"info", "created">>}
                              /\ UNCHANGED cresult
                         ELSE Done([success |-> TRUE, branchName |-> name],
                                   {<<"info", "created">>})
               ELSE /\ Caught("createFailed")
                    /\ UNCHANGED <<localBranches, head, tracked>>
  /\ UNCHANGED <<creation, creationConfig, remoteBranches, status, mergeVars, callVars, auxVars>>

\* variant: a failing `git branch --unset-upstream` fails the creation
UnsetUpstream_fatal ==
  /\ cpc = "unsetUpstream"
  /\ \E ok \in BOOLEAN :
       /\ ok => creation.branchName \in tracked
       /\ clog' = Append(clog, <<"branch --unset-upstream", creation.branchName, ok>>)
       /\ tracked' = IF ok THEN tracked \ {creation.branchName} ELSE tracked
       /\ IF ok THEN Done([success |-> TRUE, branchName |-> creation.branchName], {})
          ELSE Caught("createFailed")
  /\ UNCHANGED <<creation, creationConfig, head, localBranches, remoteBranches, status,
                 mergeVars, callVars, auxVars>>

\* `git branch --unset-upstream name` behind a remote base: its failure is only
\* logged; then return { success: true, branchName }
UnsetUpstream ==
  /\ cpc = "unsetUpstream"
  /\ \E ok \in BOOLEAN :
       /\ ok => creation.branchName \in tracked
       /\ clog' = Append(clog, <<"branch --unset-upstream", creation.branchName, ok>>)
       /\ tracked' = IF ok THEN tracked \ {creation.branchName} ELSE tracked
  /\ Done([success |-> TRUE, branchName |-> creation.branchName], {})
  /\ UNCHANGED <<creation, creationConfig, head, localBranches, remoteBranches, status,
                 mergeVars, callVars, auxVars>>

NextCreate ==
  \/ StartCreation
  \/ IsGitRepository
  \/ SelectBranchPrefix
  \/ SelectBaseBranch
  \/ GetGitUsername
  \/ InputBranchDescription
  \/ BranchExists
  \/ ExistsPrompt
  \/ CheckoutBranch
  \/ ConfirmBranchCreation
  \/ CreateAndCheckoutBranch
  \/ UnsetUpstream

SpecCreate == InitCreate /\ [][NextCreate]_vars

\* ------------------------------------------------------------------------
\* Management of the target branches (ConfigurationManager.addTargetBranch /
\* removeTargetBranch, and the dialogs of GitMergeService.manageConfiguration).
\* The configured list is any list the settings hold; its entries are compared
\* by name.
\* ------------------------------------------------------------------------

\* longest target list an addition is tried on
MaxTargets == 3

TargetPre == <<"pre">>
TargetDev == <<"dev">>
\* the names the user configures or types
TargetNames == {TargetUat, TargetPre, TargetDev}

\* currentBranches.filter((branch) => branch.name !== name)
without(branches, name) ==
  LET keep(b) == b # name IN SelectSeq(branches, keep)

\* the dialog ends; the next command starts with fresh locals
ManageReturns(shown) ==
  /\ mpc' = "idle"
  /\ mlocals' = <<>>
  /\ mmsgs' = mmsgs \cup shown

\* what target management leaves alone
ManageFrame == UNCHANGED <<repoVars, isOperationInProgress, pc, error, localVars, obsVars,
                           callVars, creationVars, quickVars, prefixVars>>

InitTargets ==
  /\ NoMerge /\ NoCall /\ NoCreation /\ NoManage /\ NoQuick /\ NoPrefixes
  /\ head = NoBranch /\ localBranches = {} /\ remoteBranches = {} /\ tracked = {}
  /\ status = "clean"
  /\ configuredTargets \in UNION {[1..k -> {TargetUat, TargetPre}] : k \in 1..2}

\* ConfigurationManager.addTargetBranch(name, description)
AddTargetBranch ==
  /\ \E name \in TargetNames, ok \in BOOLEAN :
       /\ Len(configuredTargets) < MaxTargets
       /\ IF name \in Range(configuredTargets)
            THEN /\ mmsgs' = mmsgs \cup {<<"threw", "targetExists">>}
                 /\ UNCHANGED configuredTargets
            ELSE IF ok
              THEN /\ configuredTargets' = Append(configuredTargets, name)
                   /\ UNCHANGED mmsgs
              ELSE /\ mmsgs' = mmsgs \cup {<<"threw", "updateFailed">>}
                   /\ UNCHANGED configuredTargets
  /\ UNCHANGED <<mpc, mlocals>>
  /\ ManageFrame

\* ConfigurationManager.removeTargetBranch(name)
RemoveTargetBranch ==
  /\ \E name \in TargetNames, ok \in BOOLEAN :
       IF Len(configuredTargets) <= 1
         THEN /\ mmsgs' = mmsgs \cup {<<"threw", "keepOneTarget">>}
              /\ UNCHANGED configuredTargets
         ELSE IF ok
           THEN /\ configuredTargets' = without(configuredTargets, name)
                /\ UNCHANGED mmsgs
           ELSE /\ mmsgs' = mmsgs \cup {<<"threw", "updateFailed">>}
                /\ UNCHANGED configuredTargets
  /\ UNCHANGED <<mpc, mlocals>>
  /\ ManageFrame

\* manageConfiguration and manageTargetBranchesSimplified: the two menus, up to
\* the first await of the operation chosen
ManageTargetBranches ==
  /\ mpc = "idle"
  /\ \E action \in {"add", "remove", "none"} :
       CASE action = "add" ->
              /\ mpc' = "add_name"
              /\ mlocals' = [action |-> action]
              /\ UNCHANGED mmsgs
         [] action = "remove" /\ Len(configuredTargets) <= 1 ->
              ManageReturns({<<"warning", "keepOneTarget">>})
         [] action = "remove" /\ Len(configuredTargets) > 1 ->
              /\ mpc' = "remove_pick"
              /\ mlocals' = [action |-> action, targetBranches |-> configuredTargets]
              /\ UNCHANGED mmsgs
         [] OTHER -> ManageReturns({})
  /\ UNCHANGED configuredTargets
  /\ ManageFrame

\* addTargetBranchSimplified: the name, which the validator accepts only if no
\* configured branch has it
AddTargetName ==
  /\ mpc = "add_name"
  /\ \E branchName \in TargetNames \cup {NoBranch} :
       /\ branchName # NoBranch => branchName \notin Range(configuredTargets)
       /\ IF branchName = NoBranch
            THEN ManageReturns({})
            ELSE /\ mpc' = "add_description"
                 /\ mlocals' = [action |-> "add", branchName |-> branchName]
                 /\ UNCHANGED mmsgs
  /\ UNCHANGED configuredTargets
  /\ ManageFrame

\* addTargetBranchSimplified: the description, then the list read again is
\* written with the new entry
AddTargetDescription ==
  /\ mpc = "add_description"
  /\ \E entered, ok \in BOOLEAN :
       CASE ~entered -> ManageReturns({}) /\ UNCHANGED configuredTargets
         [] entered /\ ok ->
              /\ Len(configuredTargets) < MaxTargets
              /\ configuredTargets' = Append(configuredTargets, mlocals.branchName)
              /\ ManageReturns({<<"info", "targetAdded">>})
         [] OTHER ->
              /\ ManageReturns({<<"error", "configurationFailed">>})
              /\ UNCHANGED configuredTargets
  /\ ManageFrame

\* removeTargetBranchSimplified: the branch is picked from the list read at the start
RemoveTargetPick ==
  /\ mpc = "remove_pick"
  /\ \E branchToRemove \in Range(mlocals.targetBranches) \cup {NoBranch} :
       IF branchToRemove = NoBranch
         THEN ManageReturns({})
         ELSE /\ mpc' = "remove_confirm"
              /\ mlocals' = [mlocals EXCEPT !.action = "confirm"]
                              @@ [branchToRemove |-> branchToRemove]
              /\ UNCHANGED mmsgs
  /\ UNCHANGED configuredTargets
  /\ ManageFrame

\* removeTargetBranchSimplified: once confirmed, the list read at the start is
\* written without the entries of that name
RemoveTargetConfirm ==
  /\ mpc = "remove_confirm"
  /\ \E confirmed, ok \in BOOLEAN :
       CASE ~confirmed -> ManageReturns({}) /\ UNCHANGED configuredTargets
         [] confirmed /\ ok ->
              /\ configuredTargets' = without(mlocals.targetBranches, mlocals.branchToRemove)
              /\ ManageReturns({<<"info", "targetRemoved">>})
         [] OTHER ->
              /\ ManageReturns({<<"error", "configurationFailed">>})
              /\ UNCHANGED configuredTargets
  /\ ManageFrame

NextTargets ==
  \/ AddTargetBranch
  \/ RemoveTargetBranch
  \/ ManageTargetBranches
  \/ AddTargetName
  \/ AddTargetDescription
  \/ RemoveTargetPick
  \/ RemoveTargetConfirm

SpecTargets == InitTargets /\ [][NextTargets]_vars

\* ------------------------------------------------------------------------
\* GitMergeService.quickCommitAndMerge and its command handler
\* ------------------------------------------------------------------------

QuickFrame == UNCHANGED <<configVars, callVars, creationVars, manageVars, prefixVars>>
\* what a step of the quick commit leaves of the merge invocations
QuickLeavesMerge == UNCHANGED <<pc, error, localVars, obsVars>>

QuickGoto(l) == qpc' = l /\ UNCHANGED <<qcallee, qmsgs, isOperationInProgress>>

\* finally { this.setOperationStatus(false) }, after a return or a throw that
\* the command handler shows as an error
QuickFinally(shown) ==
  /\ setOperationStatus(FALSE)
  /\ qpc' = "done"
  /\ qmsgs' = qmsgs \cup shown
  /\ UNCHANGED qcallee
QuickThrow == QuickFinally({"operationFailed"})

\* the guard, then the flag is set; the records of finished workflows are dropped
\* before the command arrives
QuickInvoke ==
  /\ qpc = "idle"
  /\ \A q \in Procs : outcome[q] \notin {"completed", "failed"}
  /\ IF checkOperationInProgress
       THEN /\ qpc' = "done"
            /\ qmsgs' = qmsgs \cup {"operationInProgress"}
            /\ UNCHANGED <<qcallee, isOperationInProgress>>
       ELSE /\ setOperationStatus(TRUE)
            /\ qpc' = "repo"
            /\ UNCHANGED <<qcallee, qmsgs>>
  /\ UNCHANGED repoVars /\ QuickLeavesMerge /\ QuickFrame

\* if (!(await this.gitOps.checkGitRepository())) throw
QuickCheckGitRepository ==
  /\ qpc = "repo"
  /\ \E ok \in BOOLEAN : IF ok THEN QuickGoto("status") ELSE QuickThrow
  /\ UNCHANGED repoVars /\ QuickLeavesMerge /\ QuickFrame

\* if (!(await this.gitOps.checkUncommittedChanges())) { show; return }
QuickCheckUncommitted ==
  /\ qpc = "status"
  /\ \E ok \in BOOLEAN :
       CASE ~ok -> QuickThrow
         [] ok /\ status = "clean" -> QuickFinally({"nothingToCommit"})
         [] OTHER -> QuickGoto("input")
  /\ UNCHANGED repoVars /\ QuickLeavesMerge /\ QuickFrame

\* the commit message input box; no message throws
QuickInput ==
  /\ qpc = "input"
  /\ \E answer \in {"message", "none"} :
       IF answer = "message" THEN QuickGoto("add") ELSE QuickThrow
  /\ UNCHANGED repoVars /\ QuickLeavesMerge /\ QuickFrame

\* commitChanges: `git add .`
QuickAdd ==
  /\ qpc = "add"
  /\ \E ok \in BOOLEAN : IF ok THEN QuickGoto("commit") ELSE QuickThrow
  /\ UNCHANGED repoVars /\ QuickLeavesMerge /\ QuickFrame

\* commitChanges: `git commit -m`, then the message that the changes are committed
QuickCommit ==
  /\ qpc = "commit"
  /\ \E ok \in BOOLEAN :
       IF ok
         THEN /\ status' = "clean"
              /\ qpc' = "confirm"
              /\ qmsgs' = qmsgs \cup {"committed"}
              /\ UNCHANGED <<qcallee, isOperationInProgress>>
         ELSE QuickThrow /\ UNCHANGED status
  /\ UNCHANGED <<head, localBranches, remoteBranches, tracked>>
  /\ QuickLeavesMerge /\ QuickFrame

\* "continue with the merge?": yes calls this.mergeFeatureBranch(), which runs to
\* its first await; any other answer returns
QuickConfirm ==
  /\ qpc = "confirm"
  /\ \E shouldMerge \in BOOLEAN :
       IF shouldMerge
         THEN \E p \in Procs :
                /\ InvokeBody(p)
                /\ qcallee' = p
                /\ qpc' = "await"
                /\ UNCHANGED qmsgs
         ELSE /\ QuickFinally({})
              /\ UNCHANGED repoVars /\ QuickLeavesMerge
  /\ QuickFrame

\* the promise of mergeFeatureBranch settles: its error is thrown on, else return
QuickAwait ==
  /\ qpc = "await"
  /\ pc[qcallee] = "done"
  /\ IF outcome[qcallee] = "failed" THEN QuickThrow ELSE QuickFinally({})
  /\ UNCHANGED repoVars /\ QuickLeavesMerge /\ QuickFrame

\* the record of a returned quick commit is dropped, after the records of the
\* invocations that returned meanwhile
QuickForget ==
  /\ qpc = "done"
  /\ \A q \in Procs : pc[q] # "done"
  /\ qpc' = "idle" /\ qcallee' = 0 /\ qmsgs' = {}
  /\ UNCHANGED <<isOperationInProgress, repoVars>>
  /\ QuickLeavesMerge /\ QuickFrame

NextQuick ==
  \/ QuickInvoke
  \/ QuickCheckGitRepository
  \/ QuickCheckUncommitted
  \/ QuickInput
  \/ QuickAdd
  \/ QuickCommit
  \/ QuickConfirm
  \/ QuickAwait
  \/ QuickForget
  \/ Next

SpecQuick == Init /\ [][NextQuick]_vars

\* ------------------------------------------------------------------------
\* BranchConfigManager: the configured branch prefixes
\* ------------------------------------------------------------------------

\* the prefix names given to the manager: the five of the default configuration,
\* "x", the empty name and "/"
PrefixArguments ==
  {PrefixFeature, PrefixFeat, PrefixBugfix, PrefixHotfix, PrefixFix,
   <<120>>, <<>>, <<47>>}

PrefixErrors ==
  {"prefixEmpty", "prefixIllegalCharacter", "prefixExists", "prefixMissing"}

\* getBranchPrefixes: the fallback to getDefaultPrefixes is for a value that was
\* never set; an empty list that was written is read as the empty list
getBranchPrefixes == storedPrefixes

\* prefixes.forEach(p => p.isDefault = false)
clearDefaults(prefixes) ==
  [i \in DOMAIN prefixes |-> [prefixes[i] EXCEPT !.isDefault = FALSE]]

\* prefixes.findIndex(p => p.prefix === prefix), counted from 1; 0 for none
findIndex(prefixes, prefix) ==
  IF \E i \in DOMAIN prefixes : prefixes[i].prefix = prefix
    THEN CHOOSE i \in DOMAIN prefixes :
           /\ prefixes[i].prefix = prefix
           /\ \A j \in DOMAIN prefixes : prefixes[j].prefix = prefix => i <= j
    ELSE 0

\* prefixes.splice(index, 1)
splice(prefixes, index) ==
  SubSeq(prefixes, 1, index - 1) \o SubSeq(prefixes, index + 1, Len(prefixes))

\* throw new Error(...): the configuration is not written
PrefixThrow(e) == prefixResult' = e /\ UNCHANGED storedPrefixes

\* updateBranchPrefixes: config.update, which may fail
updateBranchPrefixes(prefixes, ok) ==
  IF ok THEN storedPrefixes' = prefixes /\ prefixResult' = "ok"
  ELSE PrefixThrow("updateFailed")

PrefixFrame ==
  UNCHANGED <<repoVars, mergeVars, callVars, creationVars, manageVars, quickVars>>

\* addBranchPrefix(prefix, description, isDefault)
AddBranchPrefix ==
  /\ \E prefix \in PrefixArguments, isDefault, ok \in BOOLEAN :
       LET validation == validatePrefix(prefix)
           prefixes == getBranchPrefixes
       IN IF ~validation.isValid THEN PrefixThrow(validation.error)
          ELSE IF \E i \in DOMAIN prefixes : prefixes[i].prefix = prefix
            THEN PrefixThrow("prefixExists")
          ELSE updateBranchPrefixes(
                 Append(IF isDefault THEN clearDefaults(prefixes) ELSE prefixes,
                        [prefix |-> prefix, isDefault |-> isDefault]), ok)
  /\ PrefixFrame

\* removeBranchPrefix(prefix): after the removal of the default prefix the first
\* of the remaining ones becomes the default
RemoveBranchPrefix ==
  /\ \E prefix \in PrefixArguments, ok \in BOOLEAN :
       LET prefixes == getBranchPrefixes
           index == findIndex(prefixes, prefix)
           spliced == splice(prefixes, index)
       IN IF index = 0 THEN PrefixThrow("prefixMissing")
          ELSE updateBranchPrefixes(
                 IF Len(spliced) > 0 /\ ~\E i \in DOMAIN spliced : spliced[i].isDefault
                   THEN [spliced EXCEPT ![1].isDefault = TRUE]
                   ELSE spliced, ok)
  /\ PrefixFrame

\* setDefaultPrefix(prefix): the flags are cleared on the list that was read, and
\* the list is written only if the prefix is found
SetDefaultPrefix ==
  /\ \E prefix \in PrefixArguments, ok \in BOOLEAN :
       LET prefixes == clearDefaults(getBranchPrefixes)
           index == findIndex(prefixes, prefix)
       IN IF index = 0 THEN PrefixThrow("prefixMissing")
          ELSE updateBranchPrefixes([prefixes EXCEPT ![index].isDefault = TRUE], ok)
  /\ PrefixFrame

InitPrefixes == Quiet /\ NoCall

NextPrefixes ==
  \/ AddBranchPrefix
  \/ RemoveBranchPrefix
  \/ SetDefaultPrefix

SpecPrefixes == InitPrefixes /\ [][NextPrefixes]_vars

\* ------------------------------------------------------------------------
\* Observations used by the properties
\* ------------------------------------------------------------------------

\* the invocation is past the guard and has not returned
InFlight(p) == pc[p] \notin {"idle", "done"}

\* the workflow of the invocation has returned, normally or with an error
Returned(p) == outcome[p] \in {"completed", "failed"}

\* the invocation turns rejected in this step
RejectedNow(p) == outcome[p] # "rejected" /\ outcome'[p] = "rejected"

\* everything the model holds about one invocation
InvocationState(q) ==
  <<pc[q], error[q], phase[q], currentBranch[q], cb[q], targetBranch[q],
    remoteExists[q], attempts[q], conflictFiles[q], log[q], touched[q], checks[q],
    msgs[q], outcome[q], origHead[q], ensured[q], restoreProbe[q]>>

IsCheckout(e) == e[1] \in {"checkout", "checkout -b origin", "checkout -b"}
IsPush(e) == e[1] \in {"push", "push -u"}
IsAbort(e) == e[1] = "merge --abort"

\* positions of the log at which a checkout of branch b was issued
CheckoutsOf(p, b) == {i \in DOMAIN log[p] : IsCheckout(log[p][i]) /\ log[p][i][2] = b}
\* positions at which a push of the selected target was issued
TargetPushes(p) == {i \in DOMAIN log[p] : IsPush(log[p][i]) /\ log[p][i][2] = targetBranch[p]}
\* positions at which abortMerge was invoked
Aborts(p) == {i \in DOMAIN log[p] : IsAbort(log[p][i])}

\* ------------------------------------------------------------------------
\* C1 - single flight
\* ------------------------------------------------------------------------

C1_Inv ==
  /\ Cardinality({p \in Procs : InFlight(p)}) <= 1
  /\ \A p \in Procs : outcome[p] = "rejected" => ~touched[p] /\ log[p] = <<>>

C1_Step ==
  \A p \in Procs :
    RejectedNow(p) =>
      /\ UNCHANGED <<isOperationInProgress, repoVars>>
      /\ \A q \in Procs \ {p} : InvocationState(q)' = InvocationState(q)

\* C1: at most one invocation is ever past the guard; an invocation that finds the
\* flag set is rejected without having issued a VCS command or a prompt, and its
\* rejection changes neither the flag, nor the repository, nor any state of the
\* other invocations.
C1_SingleFlight == []C1_Inv /\ [][C1_Step]_vars

\* an invocation was rejected while another one is in the middle of the merge
C1_Witness ==
  \E p, q \in Procs : p # q /\ pc[p] = "smb_merge" /\ outcome[q] = "rejected"

\* ------------------------------------------------------------------------
\* C2 - lock release
\* ------------------------------------------------------------------------

C2_Inv ==
  /\ isOperationInProgress => \E p \in Procs : InFlight(p)
  /\ \A p \in Procs : Returned(p) => ~isOperationInProgress

C2_Step ==
  \A p \in Procs : RejectedNow(p) => \E q \in Procs \ {p} : InFlight(q)

\* C2: once an invocation that acquired the flag has returned, whichever way it
\* ended, the flag is false; the flag is set only while an invocation is in
\* flight, and an invocation is rejected only while another one is in flight.
C2_LockRelease == []C2_Inv /\ [][C2_Step]_vars

\* a workflow failed, its restoring checkout failed too, and the flag is clear
C2_Witness ==
  \E p \in Procs :
    outcome[p] = "failed" /\ "restoreFailed" \in msgs[p] /\ ~isOperationInProgress

\* ------------------------------------------------------------------------
\* C3 - known branch on exit
\* ------------------------------------------------------------------------

\* C3: when a workflow has returned, the checked-out branch is the branch it
\* started on, or a restore failure has been reported during that invocation.
C3_KnownBranchOnExit ==
  \A p \in Procs :
    Returned(p) => head = origHead[p] \/ "restoreFailed" \in msgs[p]

\* a workflow failed after the target had been checked out and is back on the
\* original branch
C3_Witness ==
  \E p \in Procs :
    /\ outcome[p] = "failed"
    /\ head = origHead[p]
    /\ \E i \in CheckoutsOf(p, targetBranch[p]) : log[p][i][3]

\* ------------------------------------------------------------------------
\* C4 - the restoring checkout is attempted on both paths
\* ------------------------------------------------------------------------

\* C4: in a returned workflow, every checkout command issued for the target is
\* followed by a checkout command issued for the original branch.
C4_RestoreAttempted ==
  \A p \in Procs :
    Returned(p) =>
      \A i \in CheckoutsOf(p, targetBranch[p]) :
        \E j \in CheckoutsOf(p, currentBranch[p]) : j > i

\* the checkout of the target failed and the workflow has returned
C4_Witness ==
  \E p \in Procs :
    /\ outcome[p] = "failed"
    /\ \E i \in CheckoutsOf(p, targetBranch[p]) : ~log[p][i][3]

\* ------------------------------------------------------------------------
\* C5 - upstream reconciliation of the original branch
\* ------------------------------------------------------------------------

\* a checkout command for the original branch succeeded after one for the target
RestoredOk(p) ==
  \E i \in CheckoutsOf(p, targetBranch[p]) :
    \E j \in CheckoutsOf(p, currentBranch[p]) : j > i /\ log[p][j][3]

\* C5 as stated: after a successful restoring checkout, on either path,
\* ensureBranchUpstream is invoked for the original branch if it exists remotely.
C5_Original ==
  \A p \in Procs :
    (Returned(p) /\ RestoredOk(p) /\ currentBranch[p] \in remoteBranches)
      => "restore" \in ensured[p]

C5_Inv ==
  \A p \in Procs :
    /\ outcome[p] = "completed" =>
         ("restore" \in ensured[p]
            <=> (restoreProbe[p] = "ok" /\ currentBranch[p] \in remoteBranches))
    /\ "restore" \in ensured[p] => RestoredOk(p)
    /\ "error" \notin ensured[p]

C5_Step ==
  \A p \in Procs :
    (phase[p] = "error" /\ pc[p] # "done") => ensured'[p] = ensured[p]

\* C5 amended: on the success path, after the restoring checkout succeeded,
\* ensureBranchUpstream is invoked for the original branch exactly when the
\* remote-existence probe succeeds and finds it; on the failure path
\* handleMergeError only attempts the checkout and never invokes it.
C5_Amended == []C5_Inv /\ [][C5_Step]_vars

\* handleMergeError restored a branch that exists remotely and nothing reconciled it
C5_Witness ==
  \E p \in Procs :
    /\ outcome[p] = "failed"
    /\ phase[p] = "error"
    /\ RestoredOk(p)
    /\ currentBranch[p] \in remoteBranches
    /\ "restore" \notin ensured[p]

\* ------------------------------------------------------------------------
\* C6 - a completed workflow
\* ------------------------------------------------------------------------

AbortChosen(p) == Aborts(p) # {} /\ conflictFiles[p] # <<>>

\* C7 as stated: abortMerge once, no push of the target, the workflow failed and
\* the original branch is checked out again.
C7_Original ==
  \A p \in Procs :
    (Returned(p) /\ AbortChosen(p)) =>
      /\ Cardinality(Aborts(p)) = 1
      /\ TargetPushes(p) = {}
      /\ outcome[p] = "failed"
      /\ head = origHead[p]

\* C7 amended: abortMerge once, no push of the target, the workflow failed, and
\* the checkout of the original branch is attempted after the abort; the original
\* branch is checked out again unless that checkout fails, which is reported.
C7_Amended ==
  \A p \in Procs :
    (Returned(p) /\ AbortChosen(p)) =>
      /\ Cardinality(Aborts(p)) = 1
      /\ TargetPushes(p) = {}
      /\ outcome[p] = "failed"
      /\ \A i \in Aborts(p) : \E j \in CheckoutsOf(p, currentBranch[p]) : j > i
      /\ head = origHead[p] \/ "restoreFailed" \in msgs[p]

\* the merge was aborted and the workflow has failed, back on the original branch
C7_Witness ==
  \E p \in Procs :
    /\ outcome[p] = "failed"
    /\ AbortChosen(p)
    /\ \E i \in Aborts(p) : log[p][i][3]
    /\ head = origHead[p]

\* ------------------------------------------------------------------------
\* C8 - abortMerge before rollback
\* ------------------------------------------------------------------------

\* C8: when the conflict sub-flow ended negatively by exhaustion of the poll loop
\* or by the user's abort, abortMerge is invoked before the restoring checkout.
C8_AbortBeforeRollback ==
  \A p \in Procs :
    ("conflictTimeout" \in msgs[p] \/ AbortChosen(p)) =>
      \A j \in CheckoutsOf(p, currentBranch[p]) : \E i \in Aborts(p) : i < j

\* ------------------------------------------------------------------------
\* C9 - bounded conflict poll
\* ------------------------------------------------------------------------

TimeoutNow(p) == "conflictTimeout" \notin msgs[p] /\ "conflictTimeout" \in msgs'[p]

C9_Inv ==
  \A p \in Procs :
    /\ checks[p] <= maxAttempts
    /\ pc[p] = "wfr_check" => checks[p] < maxAttempts

C9_Step ==
  \A p \in Procs :
    /\ TimeoutNow(p) =>
         checks[p] = maxAttempts /\ pc'[p] = "catch" /\ error'[p] = "mergeFailed"
    /\ (pc[p] = "wfr_wait" /\ checks[p] = maxAttempts /\ pc'[p] # pc[p]) =>
         \/ pc'[p] = "wfr_abort"
         \/ TimeoutNow(p)

\* C9: one entry of the poll loop performs at most maxAttempts conflict-state
\* checks; after the last of them found conflicts the loop is left, by the user's
\* abort or else with the timeout message and a negative result.
C9_BoundedPoll == []C9_Inv /\ [][C9_Step]_vars

\* the poll loop timed out
C9_Witness == \E p \in Procs : "conflictTimeout" \in msgs[p]

\* ------------------------------------------------------------------------
\* C10 - precondition failures
\* ------------------------------------------------------------------------

\* C10: a workflow that fails because the directory is no repository or because
\* the current branch is no feature branch has issued no mutating VCS command,
\* the restoring checkout included.
C10_PreconditionFailure ==
  \A p \in Procs :
    error[p] \in {"notGitRepository", "notFeatureBranch"} =>
      /\ log[p] = <<>>
      /\ pc[p] \in {"catch", "rethrow", "done"}

\* a workflow started on a branch that is no feature branch has failed
C10_Witness ==
  \E p \in Procs :
    /\ outcome[p] = "failed"
    /\ error[p] = "notFeatureBranch"
    /\ origHead[p] = OtherBranch

\* ------------------------------------------------------------------------
\* C11 - no configured targets
\* ------------------------------------------------------------------------

\* positions of the log that hold a mutating VCS command
Mutations(p) == {i \in DOMAIN log[p] : log[p][i] # Dismissed}

\* C11: with an empty configured target list the workflow fails before any
\* mutating VCS command has been issued: when the failure is raised the history of
\* the invocation holds no mutating command.
C11_NoTargetsBeforeMutation ==
  \A p \in Procs :
    (configuredTargets = <<>> /\ error[p] = "noTargetSelected" /\ pc[p] = "catch")
      => Mutations(p) = {}

\* ------------------------------------------------------------------------
\* C12 - cancelling the target selection
\* ------------------------------------------------------------------------

\* a command on the target: only safeMergeBranch issues pull and merge
IsTargetCommand(p, e) ==
  \/ e[1] \in {"pull", "merge"}
  \/ (IsCheckout(e) \/ IsPush(e)) /\ e[2] \in Range(configuredTargets)

\* C12: when the user returns no selection among configured targets, no checkout
\* of a target, pull, merge or push of it is issued, no error is raised to the
\* caller and no error dialog is shown.
C12_CancellationIsNoError ==
  \A p \in Procs :
    (configuredTargets # <<>> /\ error[p] = "noTargetSelected" /\ pc[p] = "done") =>
      /\ \A i \in DOMAIN log[p] : ~IsTargetCommand(p, log[p][i])
      /\ outcome[p] # "failed"
      /\ "mergeFailed" \notin msgs[p]

\* ------------------------------------------------------------------------
\* C13 - declining a prompt
\* ------------------------------------------------------------------------

\* C13: after a prompt of the workflow was dismissed without a choice, the
\* invocation issues no mutating VCS command other than the checkout of the
\* original branch.
C13_DeclineEndsWorkflow ==
  \A p \in Procs :
    \A i \in DOMAIN log[p] :
      log[p][i] = Dismissed =>
        \A j \in Mutations(p) :
          j > i => IsCheckout(log[p][j]) /\ log[p][j][2] = currentBranch[p]

\* ------------------------------------------------------------------------
\* C14 - three-tier checkout
\* ------------------------------------------------------------------------

CheckoutLabels == {"co_plain", "co_track", "co_new"}

\* the command checkoutBranch issues from each of its three branches
CheckoutTier(l) ==
  CASE l = "co_plain" -> "checkout"
    [] l = "co_track" -> "checkout -b origin"
    [] OTHER -> "checkout -b"

C14_Inv ==
  \A b \in Branches :
    /\ checkLocalBranchExists(b, TRUE) <=> b \in localBranches
    /\ ~checkLocalBranchExists(b, FALSE)
    /\ checkRemoteBranchExists(b, TRUE) <=> b \in remoteBranches
    /\ ~checkRemoteBranchExists(b, FALSE)

C14_Step ==
  \A p \in Procs :
    /\ (pc[p] = "co_local" /\ pc'[p] # pc[p]) =>
         /\ pc'[p] \in {"co_plain", "co_remote"}
         /\ pc'[p] = "co_plain" => ArgBranch(p) \in localBranches
         /\ ArgBranch(p) \notin localBranches => pc'[p] = "co_remote"
         /\ log'[p] = log[p]
    /\ (pc[p] = "co_remote" /\ pc'[p] # pc[p]) =>
         /\ pc'[p] \in {"co_track", "co_new"}
         /\ pc'[p] = "co_track" => ArgBranch(p) \in remoteBranches
         /\ ArgBranch(p) \notin remoteBranches => pc'[p] = "co_new"
         /\ log'[p] = log[p]
    /\ (pc'[p] = "co_remote" /\ pc[p] # "co_remote") => pc[p] = "co_local"
    /\ (pc'[p] \in CheckoutLabels /\ pc[p] # pc'[p]) => pc[p] \in {"co_local", "co_remote"}
    /\ (pc[p] \in CheckoutLabels /\ pc'[p] # pc[p]) =>
         /\ pc'[p] \notin CheckoutLabels \cup {"co_local", "co_remote"}
         /\ \E ok \in BOOLEAN :
              log'[p] = Append(log[p], <<CheckoutTier(pc[p]), ArgBranch(p), ok>>)
    /\ (Len(log'[p]) > Len(log[p]) /\ IsCheckout(log'[p][Len(log'[p])])) =>
         pc[p] \in CheckoutLabels

\* C14: checkoutBranch issues exactly one checkout command: the plain checkout
\* if the local probe found the branch, otherwise the checkout -b from origin if
\* the remote probe found it, otherwise the checkout -b of a fresh branch. The
\* remote probe runs only after a negative local probe, and a probe whose command
\* fails counts as negative.
C14_ThreeTierCheckout == []C14_Inv /\ [][C14_Step]_vars

\* the target was created from its remote counterpart
C14_Witness ==
  \E p \in Procs :
    \E i \in DOMAIN log[p] : log[p][i] = <<"checkout -b origin", targetBranch[p], TRUE>>

\* ------------------------------------------------------------------------
\* C15 - generated names
\* ------------------------------------------------------------------------

\* C15: when the prefix passes validatePrefix, the description passes
\* validateDescription, the date is an output of formatDate and the user name is
\* one getGitUsername returns, generateBranchName returns
\* prefix/date/description_username, validateBranchName accepts it, and a second
\* call returns the same string.
C15_GeneratedNameIsValid ==
  (fn = "validateBranchName"
     /\ validatePrefix(args.prefix).isValid
     /\ validateDescription(args.description).isValid
     /\ args.date \in GenDates
     /\ usernameAccepted(args.username))
    => /\ ret[1] = args.prefix \o <<47>> \o args.date \o <<47>> \o args.description
                     \o <<95>> \o args.username
       /\ ret[2] = ret[1]
       /\ ret[3].isValid

\* ------------------------------------------------------------------------
\* C16 - names validateBranchName rejects
\* ------------------------------------------------------------------------

\* empty, a double slash, a slash at either end, whitespace inside, or one of
\* ~ ^ : ? * [ ] \
C16_Malformed(name) ==
  \/ name = <<>>
  \/ \E i \in 1..(Len(name) - 1) : name[i] = 47 /\ name[i + 1] = 47
  \/ name[1] = 47
  \/ name[Len(name)] = 47
  \/ \E i \in 2..(Len(name) - 1) : name[i] \in {32, 9, 10}
  \/ \E i \in DOMAIN name : name[i] \in {126, 94, 58, 63, 42, 91, 93, 92}

\* C16: validateBranchName reports invalid for every name that is empty, contains
\* //, starts or ends with /, contains a space, tab or newline inside, or
\* contains one of ~ ^ : ? * [ ] \.
C16_MalformedNamesRejected ==
  (fn = "validateBranchName" /\ C16_Malformed(args)) => ~ret[1].isValid

\* ------------------------------------------------------------------------
\* C17 - validateDescription
\* ------------------------------------------------------------------------

\* a letter, a digit, a CJK ideograph of U+4E00..U+9FA5, underscore or hyphen
C17_Allowed(c) ==
  \/ c \in 65..90 \/ c \in 97..122
  \/ c \in 48..57
  \/ c \in 19968..40869
  \/ c = 95 \/ c = 45

C17_Rejected(d) == d = <<>> \/ Len(d) > 50 \/ \E i \in DOMAIN d : ~C17_Allowed(d[i])

\* C17: validateDescription reports invalid, with a non-empty error, for every
\* description that is empty, longer than 50 characters or contains a character
\* that is no letter, digit, CJK ideograph, underscore or hyphen, and reports
\* valid, without an error, for every other description.
C17_ValidateDescription ==
  fn = "validateDescription" =>
    IF C17_Rejected(args)
      THEN ~ret[1].isValid /\ "error" \in DOMAIN ret[1] /\ ret[1].error # ""
      ELSE ret[1].isValid /\ "error" \notin DOMAIN ret[1]

\* a description of 51 letters was rejected
C17_Witness ==
  /\ fn = "validateDescription"
  /\ Len(args) = 51
  /\ \A i \in DOMAIN args : args[i] = 97
  /\ ~ret[1].isValid

\* ------------------------------------------------------------------------
\* C18 - order of the base-branch list
\* ------------------------------------------------------------------------

\* 0 for the current branch, 1 for another local branch, 2 for a remote branch
C18_Class(b) == IF b.current THEN 0 ELSE IF ~b.isRemote THEN 1 ELSE 2

\* x is before y in the lexicographic order of the code units
C18_Lexicographic(x, y) ==
  \E i \in 1..Len(y) :
    /\ i <= Len(x) + 1
    /\ \A j \in 1..(i - 1) : x[j] = y[j]
    /\ (i = Len(x) + 1 \/ x[i] < y[i])

\* the sorted list holds the entries of the input, each once
C18_Permutation(in, out) ==
  /\ Len(out) = Len(in)
  /\ \A i \in DOMAIN in : \E j \in DOMAIN out : out[j] = in[i]

\* every input order of the same entries gives the same list
C18_OrderIndependent(in, out) ==
  \A q \in [DOMAIN in -> DOMAIN in] :
    (\A i, j \in DOMAIN in : i # j => q[i] # q[j])
      => sort([i \in DOMAIN in |-> in[q[i]]]) = out

\* the comparator is total and transitive on the entries
C18_Preorder(in) ==
  LET Le(a, b) == compareBranches(a, b) <= 0
  IN /\ \A i, j \in DOMAIN in : Le(in[i], in[j]) \/ Le(in[j], in[i])
     /\ \A i, j, k \in DOMAIN in :
          (Le(in[i], in[j]) /\ Le(in[j], in[k])) => Le(in[i], in[k])
     /\ \A i, j \in DOMAIN in : i # j => ~(Le(in[i], in[j]) /\ Le(in[j], in[i]))

\* C18 as stated: the list offered is a permutation of the enumerated list with
\* the current branch first, then the other local branches, then the remote
\* branches, branches of one class in lexicographic order of their names; the
\* comparator is a total preorder and the result does not depend on the input
\* order.
C18_Original ==
  fn = "sort" =>
    /\ C18_Permutation(args, ret[1])
    /\ \A i, j \in DOMAIN ret[1] :
         i < j => \/ C18_Class(ret[1][i]) < C18_Class(ret[1][j])
                  \/ /\ C18_Class(ret[1][i]) = C18_Class(ret[1][j])
                     /\ C18_Lexicographic(ret[1][i].name, ret[1][j].name)
    /\ C18_Preorder(args)
    /\ C18_OrderIndependent(args, ret[1])

\* C18 amended: as above, with branches of one class in the order of
\* localeCompare (collation order: punctuation before digits before letters,
\* case decides last), which is not the lexicographic order of the code units.
C18_Amended ==
  fn = "sort" =>
    /\ C18_Permutation(args, ret[1])
    /\ \A i, j \in DOMAIN ret[1] :
         i < j => \/ C18_Class(ret[1][i]) < C18_Class(ret[1][j])
                  \/ /\ C18_Class(ret[1][i]) = C18_Class(ret[1][j])
                     /\ localeCompare(ret[1][i].name, ret[1][j].name) < 0
    /\ C18_Preorder(args)
    /\ C18_OrderIndependent(args, ret[1])

\* a list given as remote, local, current, local was sorted
C18_Witness ==
  /\ fn = "sort"
  /\ Len(args) = 4
  /\ args[1].isRemote
  /\ ~args[2].isRemote /\ ~args[2].current
  /\ args[3].current
  /\ ~args[4].isRemote
  /\ ret[1][1] = args[3]
  /\ ret[1][4] = args[1]

\* ------------------------------------------------------------------------
\* C19 - conflict classifier
\* ------------------------------------------------------------------------

\* the two-letter codes UU AA DD AU UA DU UD
C19_Codes ==
  {<<85, 85>>, <<65, 65>>, <<68, 68>>, <<65, 85>>, <<85, 65>>, <<68, 85>>, <<85, 68>>}

\* C19: the classifier returns true iff the status command succeeded and the code
\* of at least one line of its output is one of UU AA DD AU UA DU UD; lines
\* with other codes ("M ", "A ", "??") never make it true and a failing status
\* command gives false.
C19_ConflictClassifier ==
  fn = "checkMergeConflicts" =>
    ret[1] = (args.ok /\ \E i \in DOMAIN args.entries : args.entries[i].code \in C19_Codes)

\* a status of three lines whose last has the code UD, behind an unstaged
\* change of a file named UU, was classified as a conflict
C19_Witness ==
  /\ fn = "checkMergeConflicts"
  /\ args.ok
  /\ Len(args.entries) = 3
  /\ args.entries[1] = [code |-> <<32, 77>>, path |-> <<85, 85>>]
  /\ args.entries[2].code = <<63, 63>>
  /\ args.entries[3].code = <<85, 68>>
  /\ ret[1] = TRUE

\* ------------------------------------------------------------------------
\* C20 - the composed name exists and the user has it checked out
\* ------------------------------------------------------------------------

\* createBranch has returned behind the answer "checkout existing"
C20_CheckoutChosen == cpc = "done" /\ creation.action = "checkout"

\* no command that creates a branch was issued
C20_NothingCreated ==
  \A i \in DOMAIN clog : clog[i][1] \notin {"checkout -b", "branch"}

\* C20 as stated: when the composed name exists and the user selects "checkout
\* existing", no branch-creation command is issued, the repository ends checked
\* out on the existing branch and the result reports success with its name.
C20_Original ==
  C20_CheckoutChosen =>
    /\ C20_NothingCreated
    /\ head = creation.branchName
    /\ cresult = <<[success |-> TRUE, branchName |-> creation.branchName]>>

\* C20 amended: no branch-creation command is issued and the only command is
\* `git checkout` of the existing branch; if it succeeds the repository is on
\* that branch and the result reports success with its name, and if it fails
\* the result reports failure and the error is shown.
C20_Amended ==
  C20_CheckoutChosen =>
    /\ C20_NothingCreated
    /\ creation.branchName \in localBranches
    /\ clog # <<>>
    /\ clog[Len(clog)][1] = "checkout"
    /\ clog[Len(clog)][2] = creation.branchName
    /\ IF clog[Len(clog)][3]
         THEN /\ head = creation.branchName
              /\ cresult = <<[success |-> TRUE, branchName |-> creation.branchName]>>
         ELSE /\ cresult = <<[success |-> FALSE, error |-> "checkoutFailed"]>>
              /\ <<"error", "checkoutFailed">> \in cmsgs

\* from another branch, after a re-entry, the existing branch was checked out
C20_Witness ==
  /\ C20_CheckoutChosen
  /\ creation.depth = 1
  /\ creation.branchName = ExistingBranch
  /\ head = ExistingBranch
  /\ clog = <<<<"checkout", ExistingBranch, TRUE>>>>
  /\ cresult = <<[success |-> TRUE, branchName |-> ExistingBranch]>>

\* ------------------------------------------------------------------------
\* C21 - the target list is never empty
\* ------------------------------------------------------------------------

\* C21: starting from a non-empty configured list, the list is non-empty after
\* every sequence of additions and removals of targets.
C21_TargetsNeverEmpty == configuredTargets # <<>>

\* the entry a step appends to the command history of p, when it appends one
Issued(p) == log'[p][Len(log'[p])]
Issues(p) == Len(log'[p]) = Len(log[p]) + 1 /\ Issued(p) # Dismissed

\* a failed command followed at once by the same command on the same branch
Reissued(p, i) ==
  /\ i + 1 \in DOMAIN log[p]
  /\ ~log[p][i][3]
  /\ log[p][i + 1][1] = log[p][i][1]
  /\ log[p][i + 1][2] = log[p][i][2]

\* C22: whenever a mutating command fails, the operation that issued it throws the
\* command's error (a failed merge reaches the conflict check of safeMergeBranch, a
\* failed restoring checkout the handler of the orchestrator), and below the
\* orchestrator no failed command is issued a second time.
C22_FailuresNeverSwallowed ==
  /\ [][\A p \in Procs :
          (Issues(p) /\ ~Issued(p)[3]) =>
            CASE Issued(p)[1] = "merge" -> pc'[p] = "smb_conflicts"
              [] IsCheckout(Issued(p)) /\ phase[p] = "error" -> pc'[p] = "rethrow"
              [] OTHER -> pc'[p] = "catch" /\ error'[p] = "gitCommandFailed"]_vars
  /\ [](\A p \in Procs : \A i \in DOMAIN log[p] :
          Reissued(p, i) => IsCheckout(log[p][i]))

\* ------------------------------------------------------------------------
\* C23 - existence probes
\* ------------------------------------------------------------------------

C23_Probes == {"checkRemoteBranchExists", "checkLocalBranchExists", "branchExists"}

\* C23: the existence probes never throw: for every outcome of their command they
\* return a boolean, false whenever the command fails, and the remote probe also
\* returns false when the command succeeds with empty output.
C23_ProbesNeverThrow ==
  fn \in C23_Probes =>
    /\ ~ret[1].threw
    /\ ret[1].value \in BOOLEAN
    /\ ~args.ok => ~ret[1].value
    /\ (fn = "checkRemoteBranchExists" /\ args.stdout = <<>>) => ~ret[1].value

\* the remote probe answered false to a successful command that printed nothing
C23_Witness ==
  /\ fn = "checkRemoteBranchExists"
  /\ args.ok /\ args.stdout = <<>>
  /\ ret = <<[threw |-> FALSE, value |-> FALSE]>>

\* ------------------------------------------------------------------------
\* C24 - merge failure without conflicts
\* ------------------------------------------------------------------------

\* the merge command of p failed, no conflicted file was listed, its error was
\* thrown on, and nothing but checkouts followed it
C24_Fatal(p) ==
  /\ error[p] = "gitCommandFailed"
  /\ conflictFiles[p] = <<>>
  /\ \E i \in DOMAIN log[p] :
       /\ log[p][i] = <<"merge", currentBranch[p], FALSE>>
       /\ \A j \in DOMAIN log[p] : j > i => IsCheckout(log[p][j])

\* the steps of handleMergeConflicts and waitForConflictResolution
C24_SubFlow ==
  {"smb_files", "hmc_prompt", "hmc_open", "hmc_abort", "wfr_abort", "wfr_wait",
   "wfr_check", "wfr_dirty", "wfr_commitPrompt", "wfr_add", "wfr_commit"}

\* C24: when the merge command fails and the conflict check reports no conflicts,
\* the error of the merge command is thrown to the orchestrator; in that invocation
\* the conflict sub-flow is not entered, abortMerge is not invoked, the target is
\* not pushed, and the invocation ends failed after a checkout of the original
\* branch was attempted.
C24_FatalMergeFailure ==
  /\ [][\A p \in Procs :
          (pc[p] = "smb_conflicts" /\ pc'[p] \notin {"smb_conflicts", "smb_files"}) =>
            pc'[p] = "catch" /\ C24_Fatal(p)']_vars
  /\ [](\A p \in Procs :
          C24_Fatal(p) =>
            /\ pc[p] \notin C24_SubFlow \cup {"smb_push"}
            /\ attempts[p] = 0
            /\ Aborts(p) = {}
            /\ TargetPushes(p) = {}
            /\ outcome[p] # "completed"
            /\ Returned(p) => CheckoutsOf(p, currentBranch[p]) # {})

\* a merge failed without conflicts and the invocation returned failed on the
\* original branch
C24_Witness ==
  \E p \in Procs :
    /\ C24_Fatal(p)
    /\ outcome[p] = "failed"
    /\ head = currentBranch[p]
    /\ status = "clean"

\* ------------------------------------------------------------------------
\* C25 - negative conflict resolution
\* ------------------------------------------------------------------------

\* the conflict handler of p returned false
C25_Negative(p) == error[p] = "mergeFailed"

\* the step in which the conflict handler of p returns false
C25_ReturnsFalse(p) == pc'[p] = "catch" /\ C25_Negative(p)'

\* C25: the conflict handler returns false when the user opened the first
\* conflicted file, aborted the merge, dismissed the prompt, or the poll loop ran
\* out of attempts; after a false result no push of the target is issued in that
\* invocation, and the invocation ends failed after a checkout of the original
\* branch was attempted.
C25_NegativeNeverPushes ==
  /\ [][\A p \in Procs :
          /\ (pc[p] = "hmc_prompt" /\ pc'[p] \notin {"hmc_prompt", "hmc_open", "hmc_abort", "wfr_check"})
               => C25_ReturnsFalse(p)
          /\ (pc[p] = "hmc_open" /\ pc'[p] # "hmc_open")
               => C25_ReturnsFalse(p) \/ (pc'[p] = "catch" /\ error'[p] = "openFailed")
          /\ (Issues(p) /\ Issued(p) = <<"merge --abort", targetBranch[p], TRUE>>)
               => C25_ReturnsFalse(p)
          /\ ("conflictTimeout" \in msgs'[p] \ msgs[p])
               => C25_ReturnsFalse(p)]_vars
  /\ [](\A p \in Procs :
          C25_Negative(p) =>
            /\ pc[p] \in {"catch", "co_local", "co_remote", "co_plain", "co_track",
                          "co_new", "rethrow", "done"}
            /\ TargetPushes(p) = {}
            /\ outcome[p] # "completed"
            /\ Returned(p) =>
                 /\ log[p] # <<>>
                 /\ IsCheckout(log[p][Len(log[p])])
                 /\ log[p][Len(log[p])][2] = currentBranch[p])

\* the poll loop ran out of attempts and the invocation returned failed on the
\* original branch without a push of the target
C25_Witness ==
  \E p \in Procs :
    /\ C25_Negative(p)
    /\ "conflictTimeout" \in msgs[p]
    /\ outcome[p] = "failed"
    /\ head = currentBranch[p]
    /\ TargetPushes(p) = {}

\* ------------------------------------------------------------------------
\* C26 - ordering in safeMergeBranch
\* ------------------------------------------------------------------------

\* positions of the log of p holding command cmd on the target
C26_At(p, cmd) ==
  {i \in DOMAIN log[p] : log[p][i][1] = cmd /\ log[p][i][2] = targetBranch[p]}
C26_Merges(p) == {i \in DOMAIN log[p] : log[p][i][1] = "merge"}
\* positions of the successful checkouts of the target
C26_TargetCheckouts(p) == {i \in CheckoutsOf(p, targetBranch[p]) : log[p][i][3]}

\* C26: the merge command is issued only after a successful checkout of the
\* target. If the probe found a remote counterpart of the target,
\* ensureBranchUpstream(target) was invoked and the pull succeeded after that
\* checkout and before the merge, with any set-upstream command of the target
\* before the pull; a failed pull is followed by no merge. If the probe found no
\* remote counterpart, ensureBranchUpstream(target) is not invoked and neither
\* set-upstream nor pull is issued for the target.
C26_MergingOrder ==
  \A p \in Procs :
    /\ \A m \in C26_Merges(p) :
         \E c \in C26_TargetCheckouts(p) :
           /\ c < m
           /\ remoteExists[p] =>
                /\ "target" \in ensured[p]
                /\ \E u \in C26_At(p, "pull") :
                     /\ c < u /\ u < m /\ log[p][u][3]
                     /\ \A e \in C26_At(p, "set-upstream") : c < e /\ e < u
    /\ \A u \in C26_At(p, "pull") :
         /\ "target" \in ensured[p]
         /\ ~log[p][u][3] => \A m \in C26_Merges(p) : m < u
    /\ pc[p] = "smb_pull" => "target" \in ensured[p] /\ C26_TargetCheckouts(p) # {}
    /\ ~remoteExists[p] =>
         /\ "target" \notin ensured[p]
         /\ C26_At(p, "pull") = {}
         /\ targetBranch[p] # NoBranch => C26_At(p, "set-upstream") = {}

\* a target with a remote counterpart was checked out, given its upstream, pulled
\* and merged into, in that order
C26_Witness ==
  \E p \in Procs :
    /\ remoteExists[p]
    /\ \E c, e, u, m \in DOMAIN log[p] :
         /\ c < e /\ e < u /\ u < m
         /\ c \in C26_TargetCheckouts(p)
         /\ log[p][e] = <<"set-upstream", targetBranch[p], TRUE>>
         /\ log[p][u] = <<"pull", targetBranch[p], TRUE>>
         /\ log[p][m] = <<"merge", currentBranch[p], TRUE>>

\* ------------------------------------------------------------------------
\* C27 - push mode
\* ------------------------------------------------------------------------

\* C27: every push of the target follows the merge command and carries -u iff
\* the probe at the start of safeMergeBranch found no remote counterpart of the
\* target; a completed invocation issued exactly one push of the target.
C27_PushMode ==
  \A p \in Procs :
    /\ \A i \in TargetPushes(p) :
         /\ log[p][i][1] = (IF remoteExists[p] THEN "push" ELSE "push -u")
         /\ \E m \in DOMAIN log[p] : m < i /\ log[p][m][1] = "merge"
    /\ outcome[p] = "completed" => Cardinality(TargetPushes(p)) = 1

\* an invocation completed after resolved conflicts with one push -u of a target
\* that had no remote counterpart
C27_Witness ==
  \E p \in Procs :
    /\ outcome[p] = "completed"
    /\ ~remoteExists[p]
    /\ conflictFiles[p] # <<>>
    /\ \E i \in TargetPushes(p) : log[p][i] = <<"push -u", targetBranch[p], TRUE>>

\* ------------------------------------------------------------------------
\* C28 - uncommitted changes
\* ------------------------------------------------------------------------

\* the log of p ends with a successful stage-all, commit and push of branch b
C28_Committed(l, b) ==
  /\ Len(l) >= 3
  /\ l[Len(l) - 2] = <<"add", b, TRUE>>
  /\ l[Len(l) - 1] = <<"commit", b, TRUE>>
  /\ l[Len(l)] = <<"push", b, TRUE>>

\* the user declined the commit or gave no commit message
C28_Declined(p) == error[p] \in {"commitDeclined", "noCommitMessage"}

\* C28: with uncommitted changes found by handleUncommittedChanges, the target
\* selection is reached only by the step that ends a successful stage-all, commit
\* and push of the current branch, in that order; a dismissed prompt or input box
\* throws, and after the user declined or gave no message the invocation fails
\* and issues no stash, pull or merge and no checkout or push of a target.
C28_UncommittedGate ==
  /\ [][\A p \in Procs :
          /\ (pc[p] = "huc_status" /\ status # "clean")
               => pc'[p] \in {"huc_status", "huc_prompt", "catch"}
          /\ (pc[p] # "gmp_pick" /\ pc'[p] = "gmp_pick")
               => \/ pc[p] = "huc_status" /\ status = "clean"
                  \/ pc[p] = "huc_push" /\ C28_Committed(log'[p], cb[p])
          /\ (pc[p] \in {"huc_prompt", "huc_input"} /\ pc'[p] # pc[p]
                /\ log'[p] = Append(log[p], Dismissed))
               => pc'[p] = "catch" /\ C28_Declined(p)']_vars
  /\ [](\A p \in Procs :
          C28_Declined(p) =>
            /\ pc[p] \in {"catch", "rethrow", "done"}
            /\ targetBranch[p] = NoBranch
            /\ outcome[p] # "completed"
            /\ \A i \in DOMAIN log[p] :
                 /\ log[p][i][1] \notin {"stash", "pull", "merge", "add", "commit"}
                 /\ (IsCheckout(log[p][i]) \/ IsPush(log[p][i]))
                      => log[p][i][2] \notin Range(TargetBranches))

\* uncommitted changes were committed and pushed and the target selection reached
C28_Witness ==
  \E p \in Procs :
    /\ pc[p] = "gmp_pick"
    /\ C28_Committed(log[p], currentBranch[p])

\* ------------------------------------------------------------------------
\* C29 - feature-branch eligibility
\* ------------------------------------------------------------------------

\* name begins with the characters of pre
C29_StartsWith(name, pre) ==
  Len(name) >= Len(pre) /\ \A k \in DOMAIN pre : name[k] = pre[k]

\* name begins with the characters of pre in any case, followed by a slash
C29_StartsWithSegment(name, pre) ==
  /\ Len(name) > Len(pre)
  /\ \A k \in DOMAIN pre : toLowerCase(<<name[k]>>) = toLowerCase(<<pre[k]>>)
  /\ name[Len(pre) + 1] = 47

\* the prefixes of the list, each but the last followed by a comma and a space
C29_Listed(text, list) ==
  /\ Len(text) = Len(join(list))
  /\ \A i \in DOMAIN list : includes(text, list[i])

C30_MissingOrDiffers ==
  \/ ~args.outcomes.upstreamOk
  \/ trim(args.outcomes.upstream) # origin(args.branchName)

\* C30: ensureBranchUpstream(b) issues no mutating command if no remote branch b
\* exists; if one exists it issues the set-upstream command of b to origin/b iff
\* the upstream probe fails or prints another upstream than origin/b, and nothing
\* if the upstream is origin/b already.
C30_EnsureUpstream ==
  fn = "ensureBranchUpstream" =>
    /\ ~args.outcomes.remoteExists => ret[1].issued = <<>>
    /\ args.outcomes.remoteExists => ((ret[1].issued # <<>>) <=> C30_MissingOrDiffers)
    /\ \A i \in DOMAIN ret[1].issued :
         ret[1].issued[i] = <<"branch --set-upstream-to", origin(args.branchName), args.branchName>>

\* branch u tracked origin/d and was given the upstream origin/u
C30_Witness ==
  /\ fn = "ensureBranchUpstream"
  /\ args.branchName = <<117>>
  /\ args.outcomes.remoteExists /\ args.outcomes.upstreamOk
  /\ trim(args.outcomes.upstream) = origin(<<100>>)
  /\ ret[1].issued = <<<<"branch --set-upstream-to", origin(<<117>>), <<117>>>>>>

\* ------------------------------------------------------------------------
\* C31 - failure of the restoring checkout
\* ------------------------------------------------------------------------

\* the checkout of handleMergeError failed in this step
C31_RestoreFails(p) ==
  /\ phase[p] = "error"
  /\ Issues(p) /\ IsCheckout(Issued(p)) /\ ~Issued(p)[3]

\* C31: when the checkout of the original branch in handleMergeError fails, the
\* message that the branch could not be restored is shown, the error that failed
\* the workflow stays the one that is rethrown, no further command is issued, and
\* the invocation returns failed with the flag cleared.
C31_RestoreFailure ==
  /\ [][\A p \in Procs :
          C31_RestoreFails(p) =>
            /\ Issued(p)[2] = currentBranch[p]
            /\ "restoreFailed" \in msgs'[p]
            /\ error[p] # "none" /\ error'[p] = error[p]
            /\ pc'[p] = "rethrow"]_vars
  /\ [](\A p \in Procs :
          "restoreFailed" \in msgs[p] =>
            /\ pc[p] \in {"rethrow", "done"}
            /\ error[p] # "none"
            /\ log[p] # <<>>
            /\ IsCheckout(log[p][Len(log[p])]) /\ ~log[p][Len(log[p])][3]
            /\ pc[p] = "done" =>
                 /\ outcome[p] = "failed"
                 /\ "mergeFailed" \in msgs[p]
                 /\ ~isOperationInProgress)

\* a refused conflict resolution failed the workflow, the checkout of the original
\* branch failed too, and the invocation returned with the first error
C31_Witness ==
  \E p \in Procs :
    /\ "restoreFailed" \in msgs[p]
    /\ error[p] = "mergeFailed"
    /\ outcome[p] = "failed"
    /\ head = targetBranch[p]
    /\ ~isOperationInProgress

\* ------------------------------------------------------------------------
\* C32 - one message per failure
\* ------------------------------------------------------------------------

\* the messages shown with showErrorMessage
C32_ErrorMessages == {"mergeFailed", "conflictTimeout", "restoreFailed"}

\* C32: an invocation that ended in failure has shown exactly one error message,
\* the report of a failed restore not counted.
C32_OneMessagePerFailure ==
  \A p \in Procs :
    outcome[p] = "failed" =>
      Cardinality((msgs[p] \cap C32_ErrorMessages) \ {"restoreFailed"}) = 1

\* ------------------------------------------------------------------------
\* C33 - cancelling the creation of a branch
\* ------------------------------------------------------------------------

\* the results of the five places where the user can cancel
C33_Cancellations ==
  {Failure(e) : e \in {"prefixNotSelected", "baseNotSelected", "descriptionMissing",
                       "creationCancelled", "creationNotConfirmed"}}

\* the commands that create a branch
C33_IsCreate(e) == e[1] \in {"checkout -b", "branch"}

\* C33: a creation flow cancelled at the prefix selection, the base selection, the
\* description input, the prompt about the existing branch or the confirmation
\* returns an unsuccessful result, has shown no error dialog and has issued no
\* command; the create command is issued only by the step that follows a positive
\* confirmation, which follows a negative existence check.
C33_CancellationLeavesRepository ==
  /\ [](\A i \in DOMAIN cresult :
          cresult[i] \in C33_Cancellations =>
            /\ cpc = "done"
            /\ ~cresult[i].success
            /\ \A m \in cmsgs : m[1] # "error"
            /\ clog = <<>>)
  /\ [][/\ (clog' # clog /\ C33_IsCreate(clog'[Len(clog')]))
             => cpc = "createAndCheckoutBranch" /\ Len(clog') = 1
        /\ (cpc # "createAndCheckoutBranch" /\ cpc' = "createAndCheckoutBranch")
             => cpc = "confirmBranchCreation"
        /\ (cpc # "confirmBranchCreation" /\ cpc' = "confirmBranchCreation")
             => cpc = "branchExists"]_vars

\* after a name clash and a second description the user declined the confirmation
C33_Witness ==
  /\ cresult = <<Failure("creationNotConfirmed")>>
  /\ creation.depth = 1
  /\ clog = <<>>
  /\ cmsgs = {}

\* ------------------------------------------------------------------------
\* C34 - creation from a remote base
\* ------------------------------------------------------------------------

\* C34: when the create command fails, nothing follows it and the flow returns a
\* failure; when it succeeded on a remote base, `git branch --unset-upstream` of
\* the new branch is the next and last command, and the flow returns success
\* whether that command succeeds or fails.
C34_RemoteBaseClearsTracking ==
  (clog # <<>> /\ C33_IsCreate(clog[1])) =>
    /\ ~clog[1][3] =>
         /\ Len(clog) = 1
         /\ cpc = "done" /\ ~cresult[1].success
    /\ (clog[1][3] /\ creation.baseBranch \in remoteBranches) =>
         \/ cpc = "unsetUpstream" /\ Len(clog) = 1 /\ cresult = <<>>
         \/ /\ cpc = "done" /\ Len(clog) = 2
            /\ clog[2][1] = "branch --unset-upstream"
            /\ clog[2][2] = creation.branchName
            /\ cresult = <<[success |-> TRUE, branchName |-> creation.branchName]>>

\* a branch was created from o/main, clearing its upstream failed, and the flow
\* returned success
C34_Witness ==
  /\ cpc = "done"
  /\ creation.baseBranch = RemoteMain
  /\ Len(clog) = 2 /\ clog[1][3]
  /\ clog[2] = <<"branch --unset-upstream", creation.branchName, FALSE>>
  /\ cresult = <<[success |-> TRUE, branchName |-> creation.branchName]>>
  /\ creation.branchName \in tracked

\* ------------------------------------------------------------------------
\* C35 - "re-enter" after a name clash
\* ------------------------------------------------------------------------

\* the user answers the prompt about the existing branch with "re-enter"
C35_Reenters == cpc = "existsPrompt" /\ creation'.depth = creation.depth + 1

\* results of an attempt that ended before its description input was shown
C35_BeforeDescription ==
  {Failure(e) : e \in {"notGitRepository", "noPrefixes", "prefixNotSelected",
                       "listBranchesFailed", "noBranches", "baseNotSelected",
                       "usernameFailed"}}

\* what holds of "re-enter" whether it restarts the flow or only the input: no
\* command is issued for the clashing name, and the flow returns one result, the
\* one of the renewed attempt
C35_RenewedAttempt ==
  /\ [][C35_Reenters => clog = <<>> /\ clog' = <<>> /\ cresult' = <<>>
                          /\ UNCHANGED repoVars]_vars
  /\ [](cpc = "done" =>
          /\ Len(cresult) = 1
          /\ cresult[1].success => cresult[1].branchName = creation.branchName)

\* C35 as stated: after "re-enter" no command is issued for the clashing name, the
\* user is prompted for a description again, and the flow returns the result of
\* the renewed attempt.
C35_Original ==
  /\ C35_RenewedAttempt
  /\ [](cpc = "done" /\ creation.depth >= 1 => cresult[1] \notin C35_BeforeDescription)

\* C35 amended: "re-enter" issues no command and starts createBranch again from
\* its repository check with the prefix, base and description of the first
\* attempt dropped; the description input is shown again only after a prefix and
\* a base were selected anew, and the flow returns the result of the renewed
\* attempt.
C35_Amended ==
  /\ C35_RenewedAttempt
  /\ [][C35_Reenters =>
          cpc' = "isGitRepository" /\ creation' = NewLocals(creation.depth + 1)]_vars
  /\ [](cpc = "inputBranchDescription" =>
          /\ creation.selectedPrefix \in Range(creationConfig.branchPrefixes)
          /\ creation.baseBranch \in localBranches \cup remoteBranches
          /\ creation.description = <<>>)

\* after a clash with fix/20250101/ui_leo the renewed attempt created another
\* branch and returned it
C35_Witness ==
  /\ cpc = "done"
  /\ creation.depth = 1
  /\ ExistingBranch \in localBranches
  /\ cresult = <<[success |-> TRUE, branchName |-> creation.branchName]>>
  /\ creation.branchName # ExistingBranch
  /\ creation.branchName \in localBranches

\* ------------------------------------------------------------------------
\* C36 - quick commit, then merge
\* ------------------------------------------------------------------------

\* C36: when the quick commit has committed and the user confirmed the merge, the
\* invocation of mergeFeatureBranch it makes is not rejected and enters
\* prepareMergeEnvironment, and the flag is set as long as the quick commit or
\* that invocation has not finished.
C36_QuickCommitThenMerge ==
  /\ qcallee \in Procs => outcome[qcallee] # "rejected"
  /\ (qpc \notin {"idle", "done"} \/ (qcallee \in Procs /\ InFlight(qcallee)))
       => isOperationInProgress

\* ------------------------------------------------------------------------
\* C37 - no push of the target out of a conflict state
\* ------------------------------------------------------------------------

\* the step of p is a check of the poll loop that found no conflicts
C37_NegativeCheck(p) == pc[p] = "wfr_check" /\ pc'[p] = "wfr_dirty"
\* p is past such a check, on its way out of the poll loop
C37_LoopLeft(p) == pc[p] \in {"wfr_dirty", "wfr_commitPrompt", "wfr_commit"}

\* C37: the push of the target is reached only from a merge command that
\* succeeded or from a poll loop whose conflict check found no conflicts; a merge
\* failure with a positive conflict check and an empty listing of the conflicted
\* files does not reach it.
C37_NoPushOutOfConflict ==
  [][\A p \in Procs :
       /\ (pc[p] # "smb_push" /\ pc'[p] = "smb_push") =>
            \/ pc[p] = "smb_merge" /\ Issued(p) = <<"merge", currentBranch[p], TRUE>>
            \/ C37_LoopLeft(p)
       /\ (pc[p] # "wfr_dirty" /\ pc'[p] = "wfr_dirty") => C37_NegativeCheck(p)]_vars

\* ------------------------------------------------------------------------
\* C38 - the push of the target follows the commit of the resolution
\* ------------------------------------------------------------------------

\* p is in the poll loop with the conflicts cleared and changes left to commit
C38_ToCommit(p) == pc[p] \in {"wfr_commitPrompt", "wfr_add", "wfr_commit"}

\* C38: once the poll loop found the conflicts cleared and uncommitted changes
\* left, the push of the target is reached only by the commit of the resolution
\* succeeding; an answer of cancel, or none, to the commit prompt does not reach it.
C38_PushAfterResolutionCommit ==
  [][\A p \in Procs :
       (C38_ToCommit(p) /\ pc'[p] = "smb_push") =>
         /\ pc[p] = "wfr_commit"
         /\ Issued(p) = <<"commit", targetBranch[p], TRUE>>]_vars

\* ------------------------------------------------------------------------
\* C39 - a failed workflow has not published the merge
\* ------------------------------------------------------------------------

\* the pushes of the target that succeeded
C39_Published(p) == {i \in TargetPushes(p) : log[p][i][3]}

\* C39: an invocation that ended with its error thrown to the caller has made no
\* successful push of the target, also when the error arose in the checkout of
\* the original branch or in the upstream reconciliation after the push.
C39_FailedHasNotPublished ==
  \A p \in Procs : outcome[p] = "failed" => C39_Published(p) = {}

\* ------------------------------------------------------------------------
\* C40 - one default prefix
\* ------------------------------------------------------------------------

C40_Names == {storedPrefixes[i].prefix : i \in DOMAIN storedPrefixes}
C40_Defaults == {i \in DOMAIN storedPrefixes : storedPrefixes[i].isDefault}
C40_NoDuplicates == Cardinality(C40_Names) = Len(storedPrefixes)
C40_RejectedLeavesList ==
  prefixResult' \in PrefixErrors => storedPrefixes' = storedPrefixes

\* C40: after any sequence of addBranchPrefix, removeBranchPrefix and
\* setDefaultPrefix calls the written prefix list holds no prefix name twice and,
\* unless it is empty, exactly one prefix marked default; a call that ended with
\* an error left the list as it was.
C40_DefaultPrefixUniqueness ==
  /\ [](C40_NoDuplicates)
  /\ [](Len(storedPrefixes) > 0 => Cardinality(C40_Defaults) = 1)
  /\ [][C40_RejectedLeavesList]_vars

============================================================================
